---- MODULE Spec2Model ----
(***************************************************************************)
(* Model of the default-ingress reconciliation code of the provider, of    *)
(* its value conversions and of the group membership resource:             *)
(*   provider/defaultingress/ingress.go  (PopulateDefaultIngress,          *)
(*       getDefaultIngressBuilder, SetIngress, UpdateIngress,              *)
(*       ValidateDefaultIngress)                                           *)
(*   provider/ingress.go  (the older populateDefaultIngress, setIngress,   *)
(*       updateIngress, validateDefaultIngress on the cluster state)       *)
(*   provider/common/tfconversions.go (OptionalMap, StringListToArray,     *)
(*       ConvertStringMapToMapType, StringArrayToList)                     *)
(*   provider/groupmembership/group_membership_resource.go (Create, with   *)
(*       the poll of the cluster it waits on, Read, Update, Delete)        *)
(*   the cluster resource under the applies of its creation tests          *)
(*                                                                         *)
(* A run of the model is one call of one function: Init draws the          *)
(* function and its arguments, the function's action runs it to its        *)
(* return (or panic), and the answers of the remote API are chosen at the  *)
(* moment the code sends a request.  Create is the one function that       *)
(* suspends: its run stops at each status query and each wait of the poll. *)
(* A run of a conversion applies the opposite conversion to its result.    *)
(* The lifecycle of a group membership is a sequence of such calls on one  *)
(* state store, and the applies of a cluster are a sequence of applies on  *)
(* one stored cluster.                                                     *)
(***************************************************************************)
EXTENDS Integers, Sequences, FiniteSets, TLC

VARIABLES
    op,       \* the function this run calls
    pc,       \* "start" before the call, "done" after it returned or panicked;
              \* GroupMembershipResource.Create also stops at each step of its poll
    state,    \* the caller's stored default ingress (a *DefaultIngress, or Nil)
    state0,   \* history: the caller's stored default ingress when the call began
    plan,     \* the declared default ingress (a *DefaultIngress, or Nil)
    version,  \* the parent cluster's version string
    calls,    \* the remote requests sent so far, in order, with their answers
    result,   \* how the call ended: returned error (or nil), or a panic
    ret,      \* the value a function returns beside its error: the *DefaultIngress
              \* of PopulateDefaultIngress, the cluster builder of SetIngress
    stateUsed, \* the function's own `state` when it builds the Update request
    arg,      \* the argument of a conversion of tfconversions.go
    out,      \* what the conversion returned
    back,     \* what the opposite conversion returned on that
    interval, \* the poll's interval
    deadline, \* the poll's deadline, counted from its start
    clock,    \* whole time units passed since the poll started
    late,     \* whether a fraction of a unit more has passed (the requests' latency)
    cancelled, \* whether the enclosing operation's context is cancelled
    queries,  \* the status queries of the poll: when each was sent, and its answer
    pollErr,  \* how the poll ended
    diags,    \* the errors added to resp.Diagnostics
    adds,     \* the Add (create membership) requests sent, with their answers
    saved,    \* whether resp.State.Set has stored the new state
    req,      \* the request of the group membership operation: plan and prior state
    store,    \* the state store's group membership (Nil while it holds none)
    sends,    \* the Get and Delete requests of the operation, with their answers
    member,   \* whether an Add succeeded and no Delete has succeeded since
    nops,     \* the group membership operations called so far
    source,   \* the cluster the source of the apply declares
    tfstate,  \* the stored cluster (Nil before one is created)
    prior,    \* the stored cluster when the apply began
    http,     \* the requests the server received during the apply, in order
    exit,     \* the exit code of the apply
    applies   \* the applies run so far

\* the variables of the default-ingress functions
ingressVars == <<state, state0, plan, version, calls, result, ret, stateUsed>>
\* the variables of the conversions
bridgeVars == <<arg, out, back>>
\* the variables of the poll and of GroupMembershipResource.Create
pollVars == <<interval, deadline, clock, late, cancelled, queries, pollErr,
              diags, adds, saved>>

\* the variables of the group membership's lifecycle
memberVars == <<req, store, sends, member, nops>>
\* the variables of the applies of a cluster
clusterVars == <<source, tfstate, prior, http, exit, applies>>

vars == <<op, pc, ingressVars, bridgeVars, pollVars, memberVars, clusterVars>>

(***************************************************************************)
(* Bounds of the model.                                                    *)
(***************************************************************************)
\* longest remote listing of ingresses
MaxIngresses == 2
\* longest interval, and longest deadline, of a run of the poll on its own
MaxInterval == 2
MaxDeadline == 4
\* most elements of a map or list handed to a conversion
MaxElems == 2
\* the operations of one group membership lifecycle, and the applies of one
\* cluster
MaxOps == 3
MaxApplies == 3

(***************************************************************************)
(* Tool values (terraform-plugin-framework types.String / Map / List):     *)
(* three states, null, unknown and known; a null or unknown value holds    *)
(* the zero value.                                                         *)
(***************************************************************************)
StringNull == [st |-> "null", v |-> ""]
StringUnknown == [st |-> "unknown", v |-> ""]
StringValue(s) == [st |-> "known", v |-> s]

\* basetypes.StringValue.ValueString: "" for a null or unknown value
ValueString(t) == IF t.st = "known" THEN t.v ELSE ""

\* A map is a set of <<key, element>> pairs with distinct keys; ty is its
\* element type, "none" in the Go zero value types.Map{} and "string" in any
\* value the framework or types.MapValue(types.StringType, ..) makes.
MapZero == [st |-> "null", ty |-> "none", elems |-> {}]
MapNull == [st |-> "null", ty |-> "string", elems |-> {}]
MapUnknown == [st |-> "unknown", ty |-> "string", elems |-> {}]
MapValue(elements) == [st |-> "known", ty |-> "string", elems |-> elements]

ListZero == [st |-> "null", ty |-> "none", elems |-> <<>>]
ListNull == [st |-> "null", ty |-> "string", elems |-> <<>>]
ListUnknown == [st |-> "unknown", ty |-> "string", elems |-> <<>>]
ListValue(elements) == [st |-> "known", ty |-> "string", elems |-> elements]

(***************************************************************************)
(* Native Go values: a map[string]string or []string that may be nil.      *)
(***************************************************************************)
NilMap == [nil |-> TRUE, kv |-> {}]
GoMap(pairs) == [nil |-> FALSE, kv |-> pairs]
NilSlice == [nil |-> TRUE, items |-> <<>>]
GoSlice(s) == [nil |-> FALSE, items |-> s]

\* A nil *DefaultIngress (also a nil *IngressBuilder).
Nil == [nil |-> TRUE]

\* reflect.DeepEqual on two pointers, structs or tool values: nil equals only
\* nil, and two values are equal when every field is, map and slice contents
\* included; a nil map differs from an empty one.
DeepEqual(a, b) == a = b

(***************************************************************************)
(* type DefaultIngress struct                                              *)
(***************************************************************************)
DefaultIngress(rs, en, wp, nop, id, host, tls) ==
    [nil |-> FALSE,
     RouteSelectors |-> rs,
     ExcludedNamespaces |-> en,
     WildcardPolicy |-> wp,
     NamespaceOwnershipPolicy |-> nop,
     Id |-> id,
     ClusterRoutesHostname |-> host,
     ClusterRoutesTlsSecretRef |-> tls]

\* &DefaultIngress{}: every field the Go zero value, which is null
ZeroDefaultIngress ==
    DefaultIngress(MapZero, ListZero, StringNull, StringNull, StringNull,
                   StringNull, StringNull)

(***************************************************************************)
(* common.IsStringAttributeEmpty: null, unknown or the empty string.       *)
(***************************************************************************)
IsStringAttributeEmpty(param) ==
    param.st = "unknown" \/ param.st = "null" \/ ValueString(param) = ""

(***************************************************************************)
(* Versions and common.IsGreaterThanOrEqual.  A version string is its      *)
(* parse: unparseable, or major.minor.patch with an optional pre-release   *)
(* that is numeric ("-0") or alphanumeric ("-rc.1").                       *)
(***************************************************************************)
Unparseable == [ok |-> FALSE, major |-> 0, minor |-> 0, patch |-> 0,
                pre |-> "none", n |-> 0]
Release(ma, mi, pa) == [ok |-> TRUE, major |-> ma, minor |-> mi, patch |-> pa,
                        pre |-> "none", n |-> 0]
PreNum(ma, mi, pa, k) == [ok |-> TRUE, major |-> ma, minor |-> mi, patch |-> pa,
                          pre |-> "num", n |-> k]
PreAlpha(ma, mi, pa) == [ok |-> TRUE, major |-> ma, minor |-> mi, patch |-> pa,
                         pre |-> "alpha", n |-> 0]

\* const lowestDefaultIngressVer = "4.14.0-0"
lowestDefaultIngressVer == PreNum(4, 14, 0, 0)

\* the pre-release parts of two versions with equal major.minor.patch:
\* no pre-release sorts above any pre-release, a numeric identifier below an
\* alphanumeric one, two numeric identifiers by value
PreGreaterOrEqual(a, b) ==
    CASE a.pre = "none" -> TRUE
      [] b.pre = "none" -> FALSE
      [] a.pre = "alpha" -> TRUE
      [] b.pre = "alpha" -> FALSE
      [] OTHER -> a.n >= b.n

\* the ordering of two parsed versions: major, minor, patch, then pre-release
VersionGreaterOrEqual(a, b) ==
    IF a.major # b.major THEN a.major > b.major
    ELSE IF a.minor # b.minor THEN a.minor > b.minor
    ELSE IF a.patch # b.patch THEN a.patch > b.patch
    ELSE PreGreaterOrEqual(a, b)

\* common.IsGreaterThanOrEqual(version1, version2) -> (bool, error)
IsGreaterThanOrEqual(v1, v2) ==
    IF ~v1.ok \/ ~v2.ok
    THEN [greater |-> FALSE, err |-> TRUE]
    ELSE [greater |-> VersionGreaterOrEqual(v1, v2), err |-> FALSE]

(***************************************************************************)
(* Errors.  The code builds them with fmt.Errorf; the model names each by  *)
(* the message that makes it.                                              *)
(***************************************************************************)
ErrNil == "nil"
\* "version '%s' is not supported: %v"
ErrVersionParse == "version is not supported: parse error"
\* "version '%s' is not supported with default ingress, minimum supported version is %s"
ErrVersionUnsupported == "version is not supported with default ingress"
\* "... cluster_routes_hostname and cluster_routes_tls_secret_ref can't be set on cluster creation"
ErrCreation == "can't be set on cluster creation"
\* "... cluster_routes_hostname and cluster_routes_tls_secret_ref must be set together"
ErrTogether == "must be set together"
\* the error a failed List request returns
ErrList == "list request failed"
\* the error a failed Update request returns
ErrUpdate == "update request failed"

(***************************************************************************)
(* Variants of ValidateDefaultIngress with one rule dropped or moved, used *)
(* to test that the properties of the validation depend on its rules.      *)
(***************************************************************************)
\* without the rule on cluster creation
ValidateDefaultIngressNoCreationRule(ingress, ver) ==
    IF ingress = Nil THEN ErrNil
    ELSE LET cmp == IsGreaterThanOrEqual(ver, lowestDefaultIngressVer) IN
         IF cmp.err THEN ErrVersionParse
         ELSE IF ~cmp.greater THEN ErrVersionUnsupported
         ELSE IF IsStringAttributeEmpty(ingress.ClusterRoutesHostname)
                 # IsStringAttributeEmpty(ingress.ClusterRoutesTlsSecretRef)
              THEN ErrTogether
         ELSE ErrNil

\* with the "must be set together" rule checked before the version
ValidateDefaultIngressConfigFirst(ingress, ver) ==
    IF ingress = Nil THEN ErrNil
    ELSE LET cmp == IsGreaterThanOrEqual(ver, lowestDefaultIngressVer) IN
         IF IsStringAttributeEmpty(ingress.ClusterRoutesHostname)
                 # IsStringAttributeEmpty(ingress.ClusterRoutesTlsSecretRef)
         THEN ErrTogether
         ELSE IF cmp.err THEN ErrVersionParse
         ELSE IF ~cmp.greater THEN ErrVersionUnsupported
         ELSE IF IsStringAttributeEmpty(ingress.Id)
                 /\ (~IsStringAttributeEmpty(ingress.ClusterRoutesHostname)
                     \/ ~IsStringAttributeEmpty(ingress.ClusterRoutesTlsSecretRef))
              THEN ErrCreation
         ELSE ErrNil

\* with the "must be set together" rule checked before the creation rule
ValidateDefaultIngressTogetherFirst(ingress, ver) ==
    IF ingress = Nil THEN ErrNil
    ELSE LET cmp == IsGreaterThanOrEqual(ver, lowestDefaultIngressVer) IN
         IF cmp.err THEN ErrVersionParse
         ELSE IF ~cmp.greater THEN ErrVersionUnsupported
         ELSE IF IsStringAttributeEmpty(ingress.ClusterRoutesHostname)
                 # IsStringAttributeEmpty(ingress.ClusterRoutesTlsSecretRef)
              THEN ErrTogether
         ELSE IF IsStringAttributeEmpty(ingress.Id)
                 /\ (~IsStringAttributeEmpty(ingress.ClusterRoutesHostname)
                     \/ ~IsStringAttributeEmpty(ingress.ClusterRoutesTlsSecretRef))
              THEN ErrCreation
         ELSE ErrNil

(***************************************************************************)
(* func ValidateDefaultIngress(ctx, state, version) error                  *)
(* The older validateDefaultIngress of provider/ingress.go is the same     *)
(* function on state.DefaultIngress.                                       *)
(***************************************************************************)
ValidateDefaultIngress(ingress, ver) ==
    IF ingress = Nil THEN ErrNil
    ELSE LET cmp == IsGreaterThanOrEqual(ver, lowestDefaultIngressVer) IN
         IF cmp.err THEN ErrVersionParse
         ELSE IF ~cmp.greater THEN ErrVersionUnsupported
         ELSE IF IsStringAttributeEmpty(ingress.Id)
                 /\ (~IsStringAttributeEmpty(ingress.ClusterRoutesHostname)
                     \/ ~IsStringAttributeEmpty(ingress.ClusterRoutesTlsSecretRef))
              THEN ErrCreation
         ELSE IF IsStringAttributeEmpty(ingress.ClusterRoutesHostname)
                 # IsStringAttributeEmpty(ingress.ClusterRoutesTlsSecretRef)
              THEN ErrTogether
         ELSE ErrNil

(***************************************************************************)
(* provider/common/tfconversions.go                                        *)
(***************************************************************************)
\* tfVal.ElementsAs(ctx, &result, false) into Go strings reports an error
\* when an element is not a known string
ElementsAsHasError(elements) == \E e \in elements : e.st # "known"

\* Variant of OptionalMap that makes an empty map of a null or unknown value.
OptionalMapNullAsEmpty(tfVal) ==
    IF tfVal.st = "null" \/ tfVal.st = "unknown"
    THEN [val |-> GoMap({}), err |-> FALSE]
    ELSE IF ElementsAsHasError({p[2] : p \in tfVal.elems})
         THEN [val |-> NilMap, err |-> TRUE]
         ELSE [val |-> GoMap({<<p[1], p[2].v>> : p \in tfVal.elems}),
               err |-> FALSE]


\* func OptionalMap(ctx, tfVal types.Map) (map[string]string, error)
OptionalMap(tfVal) ==
    IF tfVal.st = "null" \/ tfVal.st = "unknown"
    THEN [val |-> NilMap, err |-> FALSE]
    ELSE IF ElementsAsHasError({p[2] : p \in tfVal.elems})
         THEN [val |-> NilMap, err |-> TRUE]
         ELSE [val |-> GoMap({<<p[1], p[2].v>> : p \in tfVal.elems}),
               err |-> FALSE]

\* func StringListToArray(ctx, tfVal types.List) ([]string, error)
StringListToArray(tfVal) ==
    IF tfVal.st = "null" \/ tfVal.st = "unknown"
    THEN [val |-> NilSlice, err |-> FALSE]
    ELSE IF ElementsAsHasError({tfVal.elems[i] : i \in DOMAIN tfVal.elems})
         THEN [val |-> NilSlice, err |-> TRUE]
         ELSE [val |-> GoSlice([i \in DOMAIN tfVal.elems |-> tfVal.elems[i].v]),
               err |-> FALSE]

\* common.OptionalList(ctx, tfVal types.List) ([]string, error): the list
\* counterpart of OptionalMap
OptionalList(tfVal) == StringListToArray(tfVal)

\* Variant of ConvertStringMapToMapType that makes a null map of an empty one.
ConvertStringMapToMapTypeNullAsEmpty(stringMap) ==
    [val |-> IF stringMap.kv = {} THEN MapNull
             ELSE MapValue({<<p[1], StringValue(p[2])>> : p \in stringMap.kv}),
     err |-> FALSE]


\* func ConvertStringMapToMapType(stringMap map[string]string) (types.Map, error):
\* ranges over the map (a nil map has no entries), always makes a known map
\* of string elements, and returns a nil error whatever the diagnostics say
ConvertStringMapToMapType(stringMap) ==
    [val |-> MapValue({<<p[1], StringValue(p[2])>> : p \in stringMap.kv}),
     err |-> FALSE]

\* Variant of StringArrayToList that makes a null list of an empty slice.
StringArrayToListNullAsEmpty(stringList) ==
    [val |-> IF stringList.items = <<>> THEN ListNull
             ELSE ListValue([i \in DOMAIN stringList.items |->
                                StringValue(stringList.items[i])]),
     err |-> FALSE]


\* func StringArrayToList(stringList []string) (types.List, error)
StringArrayToList(stringList) ==
    [val |-> ListValue([i \in DOMAIN stringList.items |->
                            StringValue(stringList.items[i])]),
     err |-> FALSE]

(***************************************************************************)
(* The remote API.  An ingress object of a listing carries, for each       *)
(* attribute, whether the response holds it (the Get...() methods' ok) and *)
(* its value.                                                              *)
(***************************************************************************)
Absent(zero) == [has |-> FALSE, val |-> zero]
Present(x) == [has |-> TRUE, val |-> x]

RemoteIngress(isDefault, id, rs, en, wp, rnmop, hostname, tls) ==
    [Default |-> isDefault, ID |-> id,
     RouteSelectors |-> rs, ExcludedNamespaces |-> en,
     RouteWildcardPolicy |-> wp, RouteNamespaceOwnershipPolicy |-> rnmop,
     ClusterRoutesHostname |-> hostname, ClusterRoutesTlsSecretRef |-> tls]

\* a request of the call log
ListCall(resp) ==
    [kind |-> "List", id |-> "", body |-> Nil, ok |-> resp.ok, items |-> resp.items]
UpdateCall(ingressId, ingress, succeeded) ==
    [kind |-> "Update", id |-> ingressId, body |-> ingress, ok |-> succeeded,
     items |-> <<>>]

\* Variant of FirstDefault that takes the first ingress of the listing.
FirstDefaultAny(items) == IF items # <<>> THEN 1 ELSE 0

\* index of the first ingress of the listing marked default, 0 when none:
\* the loop's `if ingress.Default() { ...; break }`
FirstDefault(items) ==
    IF \E i \in DOMAIN items : items[i].Default
    THEN CHOOSE i \in DOMAIN items :
            items[i].Default /\ \A j \in 1..(i - 1) : ~items[j].Default
    ELSE 0

(***************************************************************************)
(* func PopulateDefaultIngress(ctx, state, client), which returns a        *)
(* pointer to a DefaultIngress and an error.                               *)
(* st is the object `state` points to (or Nil), resp the answer of the     *)
(* List request if the code sends it.  The result gives the request sent,  *)
(* the returned pointer and error, and obj, the object `state` pointed to  *)
(* as the call leaves it (the function writes through the pointer).        *)
(***************************************************************************)
\* the body of `if ingress.Default() { ... }`
PopulateFrom(st, ingress) ==
    [st EXCEPT
        !.Id = StringValue(ingress.ID),
        !.RouteSelectors =
            IF ingress.RouteSelectors.has
            THEN ConvertStringMapToMapType(ingress.RouteSelectors.val).val
            ELSE @,
        !.ExcludedNamespaces =
            IF ingress.ExcludedNamespaces.has
            THEN StringArrayToList(ingress.ExcludedNamespaces.val).val
            ELSE @,
        !.WildcardPolicy =
            IF ingress.RouteWildcardPolicy.has
            THEN StringValue(ingress.RouteWildcardPolicy.val)
            ELSE StringNull,
        !.NamespaceOwnershipPolicy =
            IF ingress.RouteNamespaceOwnershipPolicy.has
            THEN StringValue(ingress.RouteNamespaceOwnershipPolicy.val)
            ELSE StringNull,
        !.ClusterRoutesHostname =
            IF ingress.ClusterRoutesHostname.has
            THEN StringValue(ingress.ClusterRoutesHostname.val)
            ELSE StringNull,
        !.ClusterRoutesTlsSecretRef =
            IF ingress.ClusterRoutesTlsSecretRef.has
            THEN StringValue(ingress.ClusterRoutesTlsSecretRef.val)
            ELSE StringNull]

\* whether PopulateDefaultIngress sends the List request
PopulateSendsList(st) == st # Nil

PopulateDefaultIngress(st, resp) ==
    IF st = Nil
    THEN [ret |-> Nil, err |-> ErrNil, obj |-> st]
    ELSE IF ~resp.ok
    THEN [ret |-> Nil, err |-> ErrList, obj |-> st]
    ELSE LET d == FirstDefault(resp.items)
             new == IF d = 0 THEN st ELSE PopulateFrom(st, resp.items[d])
         IN [ret |-> new, err |-> ErrNil, obj |-> new]

(***************************************************************************)
(* The request builder (cmv1.IngressBuilder).  Each setter stores its      *)
(* value and marks the attribute as set; Build copies both into the        *)
(* request body, which carries exactly the attributes marked.              *)
(***************************************************************************)
NewIngress ==
    [nil |-> FALSE,
     RouteSelectors |-> Absent(NilMap),
     ExcludedNamespaces |-> Absent(NilSlice),
     RouteWildcardPolicy |-> Absent(""),
     RouteNamespaceOwnershipPolicy |-> Absent(""),
     ClusterRoutesHostname |-> Absent(""),
     ClusterRoutesTlsSecretRef |-> Absent(""),
     Default |-> Absent(FALSE)]

\* Variant of getDefaultIngressBuilder that sets the route selectors and the
\* excluded namespaces only when they are declared, instead of defaulting
\* them to empty collections.
getDefaultIngressBuilderDeclaredOnly(st) ==
    IF st = Nil THEN [panic |-> TRUE, b |-> Nil]
    ELSE LET routeSelectors == OptionalMap(st.RouteSelectors)
             excludedNamespace == OptionalList(st.ExcludedNamespaces)
         IN IF routeSelectors.err THEN [panic |-> FALSE, b |-> Nil]
            ELSE IF excludedNamespace.err THEN [panic |-> FALSE, b |-> Nil]
            ELSE [panic |-> FALSE, b |->
                [NewIngress EXCEPT
                    !.RouteSelectors =
                        IF routeSelectors.val.nil THEN @
                        ELSE Present(routeSelectors.val),
                    !.ExcludedNamespaces =
                        IF excludedNamespace.val.nil THEN @
                        ELSE Present(GoSlice(excludedNamespace.val.items)),
                    !.RouteWildcardPolicy =
                        IF ~IsStringAttributeEmpty(st.WildcardPolicy)
                        THEN Present(ValueString(st.WildcardPolicy)) ELSE @,
                    !.RouteNamespaceOwnershipPolicy =
                        IF ~IsStringAttributeEmpty(st.NamespaceOwnershipPolicy)
                        THEN Present(ValueString(st.NamespaceOwnershipPolicy))
                        ELSE @]]

\* func getDefaultIngressBuilder(ctx, state) *cmv1.IngressBuilder.
\* panic: state is nil and the function reads state.RouteSelectors.
\* b: the builder returned, Nil when a conversion failed.
getDefaultIngressBuilder(st) ==
    IF st = Nil THEN [panic |-> TRUE, b |-> Nil]
    ELSE LET routeSelectors == OptionalMap(st.RouteSelectors)
             excludedNamespace == OptionalList(st.ExcludedNamespaces)
         IN IF routeSelectors.err THEN [panic |-> FALSE, b |-> Nil]
            ELSE IF excludedNamespace.err THEN [panic |-> FALSE, b |-> Nil]
            ELSE [panic |-> FALSE, b |->
                [NewIngress EXCEPT
                    !.RouteSelectors =
                        Present(IF routeSelectors.val.nil THEN GoMap({})
                                ELSE routeSelectors.val),
                    !.ExcludedNamespaces =
                        Present(GoSlice(excludedNamespace.val.items)),
                    !.RouteWildcardPolicy =
                        IF ~IsStringAttributeEmpty(st.WildcardPolicy)
                        THEN Present(ValueString(st.WildcardPolicy)) ELSE @,
                    !.RouteNamespaceOwnershipPolicy =
                        IF ~IsStringAttributeEmpty(st.NamespaceOwnershipPolicy)
                        THEN Present(ValueString(st.NamespaceOwnershipPolicy))
                        ELSE @]]

(***************************************************************************)
(* func UpdateIngress(ctx, state, plan, clusterId, version, collection)    *)
(***************************************************************************)
Returned(e) == [kind |-> "return", err |-> e]
Panicked == [kind |-> "panic", err |-> ErrNil]
NotReturned == [kind |-> "none", err |-> ErrNil]

\* Variant of UpdateNeeded without the comparison of state and plan.
UpdateNeededAlways(st, pl) == TRUE

\* Variant of UpdateNeeded whose comparison takes a null map or list for an
\* empty one.
UpdateNeededNullAsEmpty(st, pl) ==
    LET collapsed(d) ==
            [d EXCEPT
                !.RouteSelectors = IF @.st = "null" THEN MapValue({}) ELSE @,
                !.ExcludedNamespaces = IF @.st = "null" THEN ListValue(<<>>) ELSE @]
    IN IF st = Nil \/ pl = Nil THEN st # pl ELSE collapsed(st) # collapsed(pl)


\* `if !reflect.DeepEqual(state, plan)`: whether the function does anything
UpdateNeeded(st, pl) == ~DeepEqual(st, pl)

\* `if state == nil || common.IsStringAttributeEmpty(state.Id)`: whether the
\* default ingress is looked up in the remote listing first
LookupNeeded(st) == st = Nil \/ IsStringAttributeEmpty(st.Id)

\* Variant of WithClusterRoutes that sets hostname and reference always.
WithClusterRoutesAlways(b, st, pl) ==
    [b EXCEPT
        !.ClusterRoutesHostname = Present(ValueString(pl.ClusterRoutesHostname)),
        !.ClusterRoutesTlsSecretRef = Present(ValueString(pl.ClusterRoutesTlsSecretRef))]

\* the two `if !reflect.DeepEqual(state.X, plan.X) { ingressBuilder.X(..) }`
WithClusterRoutes(b, st, pl) ==
    [b EXCEPT
        !.ClusterRoutesHostname =
            IF ~DeepEqual(st.ClusterRoutesHostname, pl.ClusterRoutesHostname)
            THEN Present(ValueString(pl.ClusterRoutesHostname)) ELSE @,
        !.ClusterRoutesTlsSecretRef =
            IF ~DeepEqual(st.ClusterRoutesTlsSecretRef, pl.ClusterRoutesTlsSecretRef)
            THEN Present(ValueString(pl.ClusterRoutesTlsSecretRef)) ELSE @]

\* `.Ingress(state.Id.ValueString())`: the identifier the Update targets
UpdateTarget(st) == ValueString(st.Id)

\* Variant of UpdateIngressSend that sends the Update once more when it fails.
UpdateIngressSendRetry(st, sent) ==
    LET g == getDefaultIngressBuilder(plan) IN
    IF g.panic \/ g.b = Nil
    THEN /\ calls' = sent
         /\ result' = Panicked
         /\ stateUsed' = st
    ELSE \E succeeded \in BOOLEAN, again \in BOOLEAN :
            LET update(answer) == UpdateCall(UpdateTarget(st),
                                      WithClusterRoutes(g.b, st, plan), answer)
            IN /\ calls' = IF succeeded THEN Append(sent, update(TRUE))
                           ELSE Append(Append(sent, update(FALSE)), update(again))
               /\ result' = Returned(IF succeeded \/ again THEN ErrNil ELSE ErrUpdate)
               /\ stateUsed' = st


\* lines 206-225: build the request from the plan and send the Update; st is
\* the state in use (after the lookup, if there was one), sent the requests
\* sent before.  A nil plan, and a nil builder, make the code panic.
UpdateIngressSend(st, sent) ==
    LET g == getDefaultIngressBuilder(plan) IN
    IF g.panic \/ g.b = Nil
    THEN /\ calls' = sent
         /\ result' = Panicked
         /\ stateUsed' = st
    ELSE \E succeeded \in BOOLEAN :
            /\ calls' = Append(sent, UpdateCall(UpdateTarget(st),
                                   WithClusterRoutes(g.b, st, plan), succeeded))
            /\ result' = Returned(IF succeeded THEN ErrNil ELSE ErrUpdate)
            /\ stateUsed' = st

(***************************************************************************)
(* provider/ingress.go: the same reconciliation on the cluster state       *)
(* (state.DefaultIngress, plan.DefaultIngress), written against the older  *)
(* framework, whose types.String{} zero value is the known empty string    *)
(* and whose helpers return no error.                                      *)
(***************************************************************************)
\* &DefaultIngress{} of provider/ingress.go: the zero value of each field is
\* known (neither Null nor Unknown is set) and empty
ZeroDefaultIngressLegacy ==
    DefaultIngress([st |-> "known", ty |-> "none", elems |-> {}],
                   [st |-> "known", ty |-> "none", elems |-> <<>>],
                   StringValue(""), StringValue(""), StringValue(""),
                   StringValue(""), StringValue(""))

\* common.MapStringToMapTypeWithNullAsEmpty: an empty or nil map is null
MapStringToMapTypeWithNullAsEmpty(stringMap) ==
    IF stringMap.kv = {} THEN MapNull
    ELSE MapValue({<<p[1], StringValue(p[2])>> : p \in stringMap.kv})

\* common.StringArrayToListWithNullAsEmpty: an empty or nil slice is null
StringArrayToListWithNullAsEmpty(stringList) ==
    IF stringList.items = <<>> THEN ListNull
    ELSE ListValue([i \in DOMAIN stringList.items |->
                        StringValue(stringList.items[i])])

\* common.StringToStringType: the empty string is null
StringToStringType(str) == IF str = "" THEN StringNull ELSE StringValue(str)

\* the older common.OptionalMap(tfVal) map[string]string
OptionalMapLegacy(tfVal) ==
    IF tfVal.st = "null" \/ tfVal.st = "unknown" THEN NilMap
    ELSE GoMap({<<p[1], p[2].v>> : p \in tfVal.elems})

\* the older common.OptionalList(tfVal) []string
OptionalListLegacy(tfVal) ==
    IF tfVal.st = "null" \/ tfVal.st = "unknown" THEN NilSlice
    ELSE GoSlice([i \in DOMAIN tfVal.elems |-> tfVal.elems[i].v])

\* func validateDefaultIngress(ctx, state *ClusterRosaClassicState, version)
validateDefaultIngress(ingress, ver) ==
    IF ingress = Nil THEN ErrNil
    ELSE LET cmp == IsGreaterThanOrEqual(ver, lowestDefaultIngressVer) IN
         IF cmp.err THEN ErrVersionParse
         ELSE IF ~cmp.greater THEN ErrVersionUnsupported
         ELSE IF IsStringAttributeEmpty(ingress.Id)
                 /\ (~IsStringAttributeEmpty(ingress.ClusterRoutesHostname)
                     \/ ~IsStringAttributeEmpty(ingress.ClusterRoutesTlsSecretRef))
              THEN ErrCreation
         ELSE IF IsStringAttributeEmpty(ingress.ClusterRoutesHostname)
                 # IsStringAttributeEmpty(ingress.ClusterRoutesTlsSecretRef)
              THEN ErrTogether
         ELSE ErrNil

\* func populateDefaultIngress(ctx, state *ClusterRosaClassicState, client) error.
\* st is state.DefaultIngress; obj is state.DefaultIngress as the call leaves it.
\* The accessors of the listed ingress return the zero value of an attribute
\* the response does not hold.
populateDefaultIngress(st, resp) ==
    IF st = Nil THEN [err |-> ErrNil, obj |-> st]
    ELSE IF ~resp.ok THEN [err |-> ErrList, obj |-> st]
    ELSE LET d == FirstDefault(resp.items)
             ingress == resp.items[d]
         IN IF d = 0 THEN [err |-> ErrNil, obj |-> st]
            ELSE [err |-> ErrNil, obj |->
                [st EXCEPT
                    !.Id = StringValue(ingress.ID),
                    !.RouteSelectors =
                        MapStringToMapTypeWithNullAsEmpty(ingress.RouteSelectors.val),
                    !.ExcludedNamespaces =
                        StringArrayToListWithNullAsEmpty(ingress.ExcludedNamespaces.val),
                    !.WildcardPolicy = StringValue(ingress.RouteWildcardPolicy.val),
                    !.NamespaceOwnershipPolicy =
                        StringValue(ingress.RouteNamespaceOwnershipPolicy.val),
                    !.ClusterRoutesHostname =
                        StringToStringType(ingress.ClusterRoutesHostname.val),
                    !.ClusterRoutesTlsSecretRef =
                        StringToStringType(ingress.ClusterRoutesTlsSecretRef.val)]]

\* func getDefaultIngressBuilder(state *ClusterRosaClassicState) of
\* provider/ingress.go; panic: state.DefaultIngress is nil
getDefaultIngressBuilderLegacy(st) ==
    IF st = Nil THEN [panic |-> TRUE, b |-> Nil]
    ELSE LET routeSelectors == OptionalMapLegacy(st.RouteSelectors) IN
         [panic |-> FALSE, b |->
            [NewIngress EXCEPT
                !.RouteSelectors =
                    Present(IF routeSelectors.nil THEN GoMap({}) ELSE routeSelectors),
                !.ExcludedNamespaces =
                    Present(GoSlice(OptionalListLegacy(st.ExcludedNamespaces).items)),
                !.RouteWildcardPolicy =
                    IF ~IsStringAttributeEmpty(st.WildcardPolicy)
                    THEN Present(st.WildcardPolicy.v) ELSE @,
                !.RouteNamespaceOwnershipPolicy =
                    IF ~IsStringAttributeEmpty(st.NamespaceOwnershipPolicy)
                    THEN Present(st.NamespaceOwnershipPolicy.v) ELSE @]]

\* lines 174-193 of provider/ingress.go: build the request from the plan and
\* send the Update
updateIngressSend(st, sent) ==
    LET g == getDefaultIngressBuilderLegacy(plan) IN
    IF g.panic
    THEN /\ calls' = sent
         /\ result' = Panicked
         /\ stateUsed' = st
    ELSE \E succeeded \in BOOLEAN :
            /\ calls' = Append(sent, UpdateCall(st.Id.v,
                                   WithClusterRoutes(g.b, st, plan), succeeded))
            /\ result' = Returned(IF succeeded THEN ErrNil ELSE ErrUpdate)
            /\ stateUsed' = st

(***************************************************************************)
(* func SetIngress(ctx, state, clusterBuilder) *cmv1.ClusterBuilder, and   *)
(* the older setIngress of provider/ingress.go.                            *)
(***************************************************************************)
\* the cluster builder the caller passes: no ingresses attached yet
NewCluster == [nil |-> FALSE, Ingresses |-> Absent(<<>>)]

\* ingressBuilder.Default(true);
\* clusterBuilder.Ingresses(cmv1.NewIngressList().Items(ingressBuilder))
WithDefaultIngress(clusterBuilder, ingressBuilder) ==
    [clusterBuilder EXCEPT
        !.Ingresses = Present(<<[ingressBuilder EXCEPT !.Default = Present(TRUE)]>>)]

\* SetIngress on the declared intent st.  panic: getDefaultIngressBuilder
\* returned nil and ingressBuilder.Default(true) writes through it.
SetIngress(st, clusterBuilder) ==
    IF st = Nil THEN [panic |-> FALSE, ret |-> clusterBuilder]
    ELSE LET g == getDefaultIngressBuilder(st) IN
         IF g.panic \/ g.b = Nil
         THEN [panic |-> TRUE, ret |-> Nil]
         ELSE [panic |-> FALSE, ret |-> WithDefaultIngress(clusterBuilder, g.b)]

\* setIngress of provider/ingress.go on state.DefaultIngress
setIngress(st, clusterBuilder) ==
    IF st = Nil THEN [panic |-> FALSE, ret |-> clusterBuilder]
    ELSE LET g == getDefaultIngressBuilderLegacy(st) IN
         [panic |-> FALSE, ret |-> WithDefaultIngress(clusterBuilder, g.b)]


(***************************************************************************)
(* The readiness poll (resource.Poll() of the cluster client) and          *)
(* GroupMembershipResource.Create, which waits on it before it sends the   *)
(* Add request.  The poll sends a status query at once and then one every  *)
(* interval, until the predicate holds of the latest answer, the deadline  *)
(* would pass before the next query, or the context is cancelled.          *)
(***************************************************************************)
\* context.WithTimeout(ctx, 1*time.Hour), in seconds
PollTimeout == 3600
\* Interval(30 * time.Second), in seconds
PollInterval == 30

\* the errors of a poll that ended without the predicate holding
ErrTimeout == "context deadline exceeded"
ErrCancelled == "context canceled"

\* the cluster states a status query answers
ClusterStates == {"installing", "ready"}

\* Predicate(func(get) bool { return get.Body().State() == cmv1.ClusterStateReady })
Predicate(get) == get = "ready"

\* the summaries of the errors Create adds to resp.Diagnostics
DiagPlan == "Can't get the plan"
DiagPoll == "Can't poll cluster state"
DiagAdd == "Can't create group membership"

\* whether the next query, one interval from now, would fall after the
\* deadline: the clock counts whole units, and `lt` tells that the queries
\* took a fraction of a unit more
DeadlineBeforeNext(lt) ==
    \/ clock + interval > deadline
    \/ clock + interval = deadline /\ lt


(***************************************************************************)
(* The group membership resource: its state, the answers of the remote     *)
(* users collection, and the errors its operations report.                 *)
(***************************************************************************)
\* GroupMembershipState, with the attributes of the resource's schema
GroupMembershipState(cluster, group, id, user) ==
    [nil |-> FALSE, Cluster |-> cluster, Group |-> group, ID |-> id, User |-> user]

\* basetypes.StringValue.String: the quoted string of a known value
String(t) ==
    IF t.st = "known" THEN "\"" \o t.v \o "\""
    ELSE IF t.st = "unknown" THEN "<unknown>" ELSE "<null>"

\* func (g *GroupMembershipResource) populateState(object, state): object
\* is the identifier of the cmv1.User the server answered, if it has one
populateState(object, st) ==
    IF object.has
    THEN [st EXCEPT !.ID = StringValue(object.val), !.User = StringValue(object.val)]
    ELSE st

\* a request to the member `User(state.ID.String())` of the users collection
GetCall(st, succeeded) == [kind |-> "Get", id |-> String(st.ID), ok |-> succeeded]
DeleteCall(st, succeeded) == [kind |-> "Delete", id |-> String(st.ID), ok |-> succeeded]

\* the summaries of the errors Read and Delete report, and the error of
\* Update: its summary, and after the colon its detail
DiagState == "Can't get the state"
DiagGet == "Can't find group membership"
DiagDelete == "Can't delete group membership"
DiagUpdate == "Can't update group membership: Update is currently not supported."

(***************************************************************************)
(* The cluster resource under `terraform apply`, as the tests of the       *)
(* cluster creation drive it against a scripted server.                    *)
(***************************************************************************)
\* the declared node counts: autoscaling between two bounds, or a fixed count
Autoscaled(min, max) ==
    [autoscaling_enabled |-> TRUE, min_replicas |-> Present(min),
     max_replicas |-> Present(max), replicas |-> Absent(0)]
Fixed(n) ==
    [autoscaling_enabled |-> FALSE, min_replicas |-> Absent(0),
     max_replicas |-> Absent(0), replicas |-> Present(n)]

\* the `nodes` of a request body: .nodes.autoscale_compute or .nodes.compute
Nodes(src) ==
    IF src.autoscaling_enabled
    THEN [autoscale_compute |-> Present([min_replicas |-> src.min_replicas.val,
                                         max_replicas |-> src.max_replicas.val]),
          compute |-> Absent(0)]
    ELSE [autoscale_compute |-> Absent([min_replicas |-> 0, max_replicas |-> 0]),
          compute |-> Present(src.replicas.val)]

\* the collection of clusters and one cluster of it
ClustersPath == "/api/clusters_mgmt/v1/clusters"
ClusterPath(id) == ClustersPath \o "/" \o id
\* the identifier of the cluster the server answers
ClusterId == "123"

\* a request of an apply and whether the server answered it with 200
Http(method, path, body, succeeded) ==
    [method |-> method, path |-> path, body |-> body, ok |-> succeeded]

\* the exit code of an apply that has not ended
Running == -1


(***************************************************************************)
(* The values the runs draw their arguments and the remote answers from.   *)
(***************************************************************************)
\* the set of DefaultIngress structs with each field drawn from a set
DefaultIngresses(RS, EN, WP, NOP, ID, HOST, TLS) ==
    {DefaultIngress(rs, en, wp, nop, id, host, tls) :
        rs \in RS, en \in EN, wp \in WP, nop \in NOP, id \in ID,
        host \in HOST, tls \in TLS}

\* declared values: an element whose value is unknown makes ElementsAs fail
UpdatePlans ==
    {Nil} \cup DefaultIngresses(
        {MapNull, MapValue({}), MapValue({<<"k", StringValue("v")>>}),
         MapValue({<<"k", StringUnknown>>})},
        {ListNull, ListValue(<<>>), ListValue(<<StringValue("ns")>>)},
        {StringNull, StringValue("WildcardsAllowed"), StringValue("WildcardsDisallowed")},
        {StringUnknown, StringValue("Strict")},
        {StringNull, StringValue("i0")},
        {StringNull, StringValue("h")},
        {StringNull, StringValue("t")})

UpdateStates ==
    {Nil} \cup DefaultIngresses(
        {MapNull, MapValue({<<"k", StringValue("v")>>})},
        {ListNull},
        {StringNull, StringValue("WildcardsDisallowed")},
        {StringValue("Strict")},
        {StringNull, StringValue(""), StringValue("i0")},
        {StringNull, StringValue("h")},
        {StringNull, StringValue("t")})

\* the arguments of the older updateIngress
LegacyPlans ==
    {Nil} \cup DefaultIngresses(
        {MapNull, MapValue({<<"k", StringValue("v")>>})},
        {ListNull},
        {StringValue("WildcardsAllowed"), StringValue("WildcardsDisallowed")},
        {StringValue("Strict")},
        {StringNull, StringValue("i0")},
        {StringNull, StringValue("h")},
        {StringNull, StringValue("t")})

LegacyStates ==
    {Nil} \cup DefaultIngresses(
        {MapNull},
        {ListNull},
        {StringValue("WildcardsDisallowed")},
        {StringValue("Strict")},
        {StringNull, StringValue("i0")},
        {StringNull, StringValue("h")},
        {StringNull, StringValue("t")})

\* the declared values SetIngress is called on at creation: a map or list
\* with a null or unknown element makes ElementsAs fail
SetPlans ==
    {Nil} \cup DefaultIngresses(
        {MapNull, MapUnknown, MapValue({}), MapValue({<<"k", StringValue("v")>>}),
         MapValue({<<"k", StringNull>>})},
        {ListNull, ListValue(<<>>), ListValue(<<StringValue("ns")>>),
         ListValue(<<StringValue("ns"), StringUnknown>>)},
        {StringNull, StringUnknown, StringValue(""), StringValue("WildcardsAllowed")},
        {StringNull, StringValue("Strict")},
        {StringNull},
        {StringNull, StringValue("h")},
        {StringNull})


\* The arguments of the conversions: tool maps and lists of at most MaxElems
\* elements, each element a known string, null or unknown, and native maps
\* and slices of at most MaxElems strings.
BridgeKeys == {"k1", "k2", "k3"}
BridgeStrings == {"", "a", "b"}
BridgeElements == {StringValue(s) : s \in {"", "a"}} \cup {StringNull, StringUnknown}

\* the sets of <<key, element>> pairs with distinct keys
PairSets(elements) ==
    UNION {{{<<k, f[k]>> : k \in K} : f \in [K -> elements]} :
              K \in {K \in SUBSET BridgeKeys : Cardinality(K) <= MaxElems}}
\* the sequences of at most MaxElems elements
SeqsUpTo(elements) == UNION {[1..n -> elements] : n \in 0..MaxElems}

ToolMaps ==
    {MapNull, MapZero, MapUnknown} \cup {MapValue(ps) : ps \in PairSets(BridgeElements)}
ToolLists ==
    {ListNull, ListZero, ListUnknown}
        \cup {ListValue(s) : s \in SeqsUpTo(BridgeElements)}
NativeMaps == {NilMap} \cup {GoMap(ps) : ps \in PairSets({"", "a"})}
NativeSlices == {NilSlice} \cup {GoSlice(s) : s \in SeqsUpTo(BridgeStrings)}


UpdateVersions == {Unparseable, Release(4, 13, 0), Release(4, 14, 0)}

ValidatePlans ==
    {Nil} \cup DefaultIngresses(
        {MapNull, MapValue({<<"k", StringValue("v")>>})},
        {ListNull},
        {StringNull, StringValue("WildcardsAllowed")},
        {StringNull},
        {StringNull, StringUnknown, StringValue(""), StringValue("i0")},
        {StringNull, StringUnknown, StringValue(""), StringValue("h")},
        {StringNull, StringUnknown, StringValue(""), StringValue("t")})

Versions ==
    {Unparseable, Release(3, 20, 5), Release(4, 2, 20), Release(4, 13, 9),
     PreNum(4, 14, 0, 0), PreNum(4, 14, 0, 1), PreAlpha(4, 14, 0),
     Release(4, 14, 0), Release(4, 15, 2), Release(5, 0, 0)}

\* the stored objects PopulateDefaultIngress is called on: none, a fresh
\* &DefaultIngress{}, and objects that hold a value in every field
PopulateStates ==
    {Nil, ZeroDefaultIngress} \cup DefaultIngresses(
        {MapNull, MapValue({<<"old", StringValue("x")>>})},
        {ListNull, ListValue(<<StringValue("oldns")>>)},
        {StringValue("WildcardsDisallowed")},
        {StringValue("InterNamespaceAllowed")},
        {StringNull, StringValue("i0")},
        {StringValue("oldhost")},
        {StringValue("oldtls")})

\* the attributes a listed ingress carries: its collections ...
RemoteCollections ==
    {<<Absent(NilMap), Absent(NilSlice)>>,
     <<Present(GoMap({})), Present(GoSlice(<<>>))>>,
     <<Present(GoMap({<<"k", "v">>})), Present(GoSlice(<<"ns">>))>>}
\* ... and its policies, hostname and TLS secret reference
RemoteScalars ==
    {<<Absent(""), Absent(""), Absent(""), Absent("")>>,
     <<Present("WildcardsAllowed"), Present("Strict"), Absent(""), Absent("")>>,
     <<Absent(""), Absent(""), Present("h"), Present("t")>>,
     <<Present("WildcardsAllowed"), Present("Strict"), Present("h"), Present("t")>>}

\* the i-th ingress of a listing, of the shape sh; its identifier is its
\* position, so that no two listed ingresses share one
IngressAt(i, sh) ==
    RemoteIngress(sh[1], ToString(i), sh[2][1], sh[2][2],
                  sh[3][1], sh[3][2], sh[3][3], sh[3][4])

\* The answer of a List request: a failure, or a listing of n ingresses, at
\* most MaxIngresses, of the shapes f[1] .. f[n].  A run draws n and f, and
\* draws the failure with n = 0 only, since a failed List lists nothing.
ListOutcomes(n) == IF n = 0 THEN BOOLEAN ELSE {TRUE}
ListResponse(succeeded, n, f) ==
    [ok |-> succeeded, items |-> [i \in 1..n |-> IngressAt(i, f[i])]]

\* UpdateIngress reads the identifier, hostname and TLS secret reference of
\* the listed default ingress
UpdateShapes ==
    BOOLEAN \X {<<Absent(NilMap), Absent(NilSlice)>>}
            \X {sc \in RemoteScalars : sc[1].has = sc[3].has}
PopulateShapes == BOOLEAN \X RemoteCollections \X RemoteScalars

\* the plans of a group membership: cluster, group and user are required,
\* the identifier is computed
MemberPlans ==
    {GroupMembershipState(StringValue("c1"), StringValue("g1"), StringUnknown,
                          StringValue(u)) : u \in {"u1", "u2"}}
\* the user the server answers an Add or a Get with: GetID()'s value and ok
UserObjects == {Absent(""), Present("u1"), Present("u2")}
\* the operations of the group membership resource
MembershipOps == {"Create", "Read", "Update", "Delete"}

\* the sources the applies are run on
ClusterSources ==
    {Autoscaled(min, max) : min \in 2..3, max \in 4..5} \cup {Fixed(n) : n \in 4..5}

(***************************************************************************)
(* The runs.                                                               *)
(***************************************************************************)
\* a run that converts nothing on its own
IdleBridge == arg = Nil /\ out = Nil /\ back = Nil

\* the poll has not ended (or the run has none)
NotPolled == "none"

\* a run without a poll and without group membership requests
IdlePoll ==
    /\ interval = 0 /\ deadline = 0 /\ clock = 0 /\ late = FALSE
    /\ cancelled = FALSE /\ queries = <<>> /\ pollErr = NotPolled
    /\ diags = <<>> /\ adds = <<>> /\ saved = FALSE

\* a run without group membership operations and without applies
IdleMember ==
    req = Nil /\ store = Nil /\ sends = <<>> /\ member = FALSE /\ nops = 0
IdleCluster ==
    /\ source = Nil /\ tfstate = Nil /\ prior = Nil
    /\ http = <<>> /\ exit = Running /\ applies = 0

\* a run that calls no default-ingress function
IdleIngress ==
    /\ state = Nil /\ state0 = Nil /\ plan = Nil /\ version = Unparseable
    /\ calls = <<>> /\ result = NotReturned /\ ret = Nil /\ stateUsed = Nil

InitCall ==
    /\ pc = "start"
    /\ calls = <<>>
    /\ result = NotReturned
    /\ ret = Nil
    /\ stateUsed = Nil
    /\ IdleBridge
    /\ IdlePoll
    /\ IdleMember /\ IdleCluster

InitUpdate ==
    /\ InitCall
    /\ \/ /\ op = "UpdateIngress"
          /\ state \in UpdateStates
          /\ plan \in UpdatePlans
       \/ /\ op = "updateIngress"
          /\ state \in LegacyStates
          /\ plan \in LegacyPlans
    /\ version \in UpdateVersions
    /\ state0 = state

InitValidate ==
    /\ InitCall
    /\ op \in {"ValidateDefaultIngress", "validateDefaultIngress"}
    /\ state = Nil
    /\ plan \in ValidatePlans
    /\ version \in Versions
    /\ state0 = state

InitPopulate ==
    /\ InitCall
    /\ \/ op = "PopulateDefaultIngress" /\ state \in PopulateStates
       \/ op = "populateDefaultIngress" /\ state \in LegacyStates
    /\ plan = Nil
    /\ version = Unparseable
    /\ state0 = state

InitSet ==
    /\ InitCall
    /\ \/ op = "SetIngress" /\ plan \in SetPlans
       \/ op = "setIngress" /\ plan \in LegacyPlans
    /\ state = Nil
    /\ version = Unparseable
    /\ state0 = state


\* The runs of the poll on its own, with a small interval and deadline, and
\* of GroupMembershipResource.Create.
InitPoll ==
    /\ IdleIngress /\ IdleBridge
    /\ clock = 0 /\ late = FALSE /\ cancelled = FALSE
    /\ queries = <<>> /\ pollErr = NotPolled
    /\ diags = <<>> /\ adds = <<>> /\ saved = FALSE
    /\ IdleCluster
    /\ store = Nil /\ sends = <<>> /\ member = FALSE
    /\ \/ /\ op = "Poll" /\ pc = "poll"
          /\ interval \in 1..MaxInterval
          /\ deadline \in 1..MaxDeadline
          /\ req = Nil /\ nops = 0
       \/ /\ op = "Create" /\ pc = "start"
          /\ interval = 0 /\ deadline = 0
          /\ \E p \in MemberPlans : req = [Plan |-> p, State |-> Nil]
          /\ nops = 1

\* The lifecycle of one group membership: the store holds none, and Create
\* is the operation called first.
InitMembership == InitPoll /\ op = "Create"

\* The applies of the cluster tests: the first source is applied while no
\* cluster is stored.
InitCluster ==
    /\ IdleIngress /\ IdleBridge /\ IdlePoll /\ IdleMember
    /\ op = "Apply" /\ pc = "start"
    /\ source \in ClusterSources
    /\ tfstate = Nil /\ prior = Nil
    /\ http = <<>> /\ exit = Running /\ applies = 1


\* The runs of the conversions: op names the conversion applied to arg; the
\* opposite conversion is then applied to what it returned.
InitBridge ==
    /\ IdleIngress /\ IdlePoll
    /\ IdleMember /\ IdleCluster
    /\ pc = "start"
    /\ out = Nil /\ back = Nil
    /\ \/ op = "OptionalMap" /\ arg \in ToolMaps
       \/ op = "StringListToArray" /\ arg \in ToolLists
       \/ op = "ConvertStringMapToMapType" /\ arg \in NativeMaps
       \/ op = "StringArrayToList" /\ arg \in NativeSlices


Init ==
    \/ InitUpdate \/ InitValidate \/ InitPopulate \/ InitSet \/ InitPoll
    \/ InitBridge \/ InitCluster

\* Variant of Call_UpdateIngress that looks the default ingress up before it
\* validates the plan.
Call_UpdateIngressLookupFirst ==
    /\ pc = "start" /\ op = "UpdateIngress"
    /\ pc' = "done"
    /\ UNCHANGED <<bridgeVars, pollVars, memberVars, clusterVars>>
    /\ UNCHANGED <<op, state, state0, plan, version, ret>>
    /\ IF ~UpdateNeeded(state, plan)
       THEN calls' = <<>> /\ result' = Returned(ErrNil) /\ stateUsed' = stateUsed
       ELSE LET err == ValidateDefaultIngress(plan, version) IN
            IF LookupNeeded(state)
            THEN \E n \in 0..MaxIngresses : \E f \in [1..n -> UpdateShapes] :
                 \E succeeded \in ListOutcomes(n) :
                    LET resp == ListResponse(succeeded, n, f) IN
                    LET p == PopulateDefaultIngress(ZeroDefaultIngress, resp) IN
                    IF p.err # ErrNil
                    THEN /\ calls' = <<ListCall(resp)>>
                         /\ result' = Returned(p.err)
                         /\ stateUsed' = p.ret
                    ELSE IF err # ErrNil
                    THEN /\ calls' = <<ListCall(resp)>>
                         /\ result' = Returned(err)
                         /\ stateUsed' = p.ret
                    ELSE UpdateIngressSend(p.ret, <<ListCall(resp)>>)
            ELSE IF err # ErrNil
            THEN calls' = <<>> /\ result' = Returned(err) /\ stateUsed' = stateUsed
            ELSE UpdateIngressSend(state, <<>>)

\* UpdateIngress(ctx, state, plan, clusterId, version, clusterCollection).
\* The function rebinds its own `state` before the lookup, so the object the
\* caller's pointer refers to is never written.
Call_UpdateIngress ==
    /\ pc = "start" /\ op = "UpdateIngress"
    /\ pc' = "done"
    /\ UNCHANGED <<bridgeVars, pollVars, memberVars, clusterVars>>
    /\ UNCHANGED <<op, state, state0, plan, version, ret>>
    /\ IF ~UpdateNeeded(state, plan)
       THEN calls' = <<>> /\ result' = Returned(ErrNil) /\ stateUsed' = stateUsed
       ELSE LET err == ValidateDefaultIngress(plan, version) IN
            IF err # ErrNil
            THEN calls' = <<>> /\ result' = Returned(err) /\ stateUsed' = stateUsed
            ELSE IF LookupNeeded(state)
            THEN \E n \in 0..MaxIngresses : \E f \in [1..n -> UpdateShapes] :
                 \E succeeded \in ListOutcomes(n) :
                    LET resp == ListResponse(succeeded, n, f) IN
                    LET p == PopulateDefaultIngress(ZeroDefaultIngress, resp) IN
                    IF p.err # ErrNil
                    THEN /\ calls' = <<ListCall(resp)>>
                         /\ result' = Returned(p.err)
                         /\ stateUsed' = p.ret
                    ELSE UpdateIngressSend(p.ret, <<ListCall(resp)>>)
            ELSE UpdateIngressSend(state, <<>>)

\* updateIngress(ctx, state, plan, clusterCollection) of provider/ingress.go.
\* `state` is the caller's cluster state: the assignment
\* `state.DefaultIngress = &DefaultIngress{}` and the writes of
\* populateDefaultIngress land in it.
Call_updateIngress ==
    /\ pc = "start" /\ op = "updateIngress"
    /\ pc' = "done"
    /\ UNCHANGED <<bridgeVars, pollVars, memberVars, clusterVars>>
    /\ UNCHANGED <<op, state0, plan, version, ret>>
    /\ IF ~UpdateNeeded(state, plan)
       THEN /\ calls' = <<>> /\ result' = Returned(ErrNil)
            /\ state' = state /\ stateUsed' = stateUsed
       ELSE LET err == validateDefaultIngress(plan, version) IN
            IF err # ErrNil
            THEN /\ calls' = <<>> /\ result' = Returned(err)
                 /\ state' = state /\ stateUsed' = stateUsed
            ELSE IF LookupNeeded(state)
            THEN \E n \in 0..MaxIngresses : \E f \in [1..n -> UpdateShapes] :
                 \E succeeded \in ListOutcomes(n) :
                    LET resp == ListResponse(succeeded, n, f) IN
                    LET p == populateDefaultIngress(ZeroDefaultIngressLegacy, resp) IN
                    /\ state' = p.obj
                    /\ IF p.err # ErrNil
                       THEN /\ calls' = <<ListCall(resp)>>
                            /\ result' = Returned(p.err)
                            /\ stateUsed' = stateUsed
                       ELSE updateIngressSend(p.obj, <<ListCall(resp)>>)
            ELSE state' = state /\ updateIngressSend(state, <<>>)

\* ValidateDefaultIngress(ctx, plan, version), called on its own
Call_ValidateDefaultIngress ==
    /\ pc = "start" /\ op = "ValidateDefaultIngress"
    /\ pc' = "done"
    /\ UNCHANGED <<bridgeVars, pollVars, memberVars, clusterVars>>
    /\ result' = Returned(ValidateDefaultIngress(plan, version))
    /\ UNCHANGED <<op, state, state0, plan, version, calls, ret, stateUsed>>

\* validateDefaultIngress(ctx, plan, version) of provider/ingress.go
Call_validateDefaultIngress ==
    /\ pc = "start" /\ op = "validateDefaultIngress"
    /\ pc' = "done"
    /\ UNCHANGED <<bridgeVars, pollVars, memberVars, clusterVars>>
    /\ result' = Returned(validateDefaultIngress(plan, version))
    /\ UNCHANGED <<op, state, state0, plan, version, calls, ret, stateUsed>>

\* PopulateDefaultIngress(ctx, state, client), called on its own (the read
\* path); it writes through `state`
Call_PopulateDefaultIngress ==
    /\ pc = "start" /\ op = "PopulateDefaultIngress"
    /\ pc' = "done"
    /\ UNCHANGED <<bridgeVars, pollVars, memberVars, clusterVars>>
    /\ UNCHANGED <<op, state0, plan, version, stateUsed>>
    /\ IF ~PopulateSendsList(state)
       THEN LET p == PopulateDefaultIngress(state, [ok |-> FALSE, items |-> <<>>]) IN
            /\ calls' = <<>>
            /\ ret' = p.ret /\ result' = Returned(p.err) /\ state' = p.obj
       ELSE \E n \in 0..MaxIngresses : \E f \in [1..n -> PopulateShapes] :
            \E succeeded \in ListOutcomes(n) :
            LET resp == ListResponse(succeeded, n, f) IN
            LET p == PopulateDefaultIngress(state, resp) IN
            /\ calls' = <<ListCall(resp)>>
            /\ ret' = p.ret /\ result' = Returned(p.err) /\ state' = p.obj

\* populateDefaultIngress(ctx, state, client) of provider/ingress.go, called
\* on its own; state is state.DefaultIngress, which the function writes
\* to, and the function returns the error only
Call_populateDefaultIngress ==
    /\ pc = "start" /\ op = "populateDefaultIngress"
    /\ pc' = "done"
    /\ UNCHANGED <<bridgeVars, pollVars, memberVars, clusterVars>>
    /\ UNCHANGED <<op, state0, plan, version, stateUsed, ret>>
    /\ IF state = Nil
       THEN LET p == populateDefaultIngress(state, [ok |-> FALSE, items |-> <<>>]) IN
            /\ calls' = <<>>
            /\ result' = Returned(p.err) /\ state' = p.obj
       ELSE \E n \in 0..MaxIngresses : \E f \in [1..n -> PopulateShapes] :
            \E succeeded \in ListOutcomes(n) :
            LET resp == ListResponse(succeeded, n, f) IN
            LET p == populateDefaultIngress(state, resp) IN
            /\ calls' = <<ListCall(resp)>>
            /\ result' = Returned(p.err) /\ state' = p.obj

\* SetIngress(ctx, plan, clusterBuilder) at cluster creation
Call_SetIngress ==
    /\ pc = "start" /\ op = "SetIngress"
    /\ pc' = "done"
    /\ LET s == SetIngress(plan, NewCluster) IN
       /\ ret' = s.ret
       /\ result' = IF s.panic THEN Panicked ELSE Returned(ErrNil)
    /\ UNCHANGED <<op, state, state0, plan, version, calls, stateUsed>>
    /\ UNCHANGED <<bridgeVars, pollVars, memberVars, clusterVars>>

\* setIngress(plan, clusterBuilder) of provider/ingress.go
Call_setIngress ==
    /\ pc = "start" /\ op = "setIngress"
    /\ pc' = "done"
    /\ LET s == setIngress(plan, NewCluster) IN
       /\ ret' = s.ret
       /\ result' = IF s.panic THEN Panicked ELSE Returned(ErrNil)
    /\ UNCHANGED <<op, state, state0, plan, version, calls, stateUsed>>
    /\ UNCHANGED <<bridgeVars, pollVars, memberVars, clusterVars>>


\* Create, lines 91-103: read the plan, and set up the poll of the cluster
Create_Start ==
    /\ pc = "start" /\ op = "Create"
    /\ \E planRead \in BOOLEAN :
        IF planRead
        THEN /\ pc' = "poll"
             /\ interval' = PollInterval /\ deadline' = PollTimeout
             /\ diags' = diags
        ELSE /\ pc' = "done"
             /\ diags' = Append(diags, DiagPlan)
             /\ UNCHANGED <<interval, deadline>>
    /\ UNCHANGED <<op, ingressVars, bridgeVars, clusterVars>>
    /\ UNCHANGED memberVars
    /\ UNCHANGED <<clock, late, cancelled, queries, pollErr, adds, saved>>

\* Variant of Poll_Query that tests the deadline only once it has passed.
Poll_QueryPastDeadline ==
    /\ pc = "poll"
    /\ IF cancelled
       THEN /\ pollErr' = ErrCancelled /\ pc' = "polled"
            /\ UNCHANGED <<queries, late>>
       ELSE \E get \in ClusterStates, lt \in BOOLEAN :
            /\ queries' = Append(queries, [at |-> clock, state |-> get])
            /\ late' = (late \/ lt)
            /\ IF Predicate(get)
               THEN pollErr' = ErrNil /\ pc' = "polled"
               ELSE IF clock > deadline
               THEN pollErr' = ErrTimeout /\ pc' = "polled"
               ELSE pollErr' = pollErr /\ pc' = "sleep"
    /\ UNCHANGED <<op, ingressVars, bridgeVars, clusterVars>>
    /\ UNCHANGED memberVars
    /\ UNCHANGED <<interval, deadline, clock, cancelled, diags, adds, saved>>

\* Variant of Poll_Query that does not look at the context before it sends.
Poll_QueryIgnoringCancel ==
    /\ pc = "poll"
    /\ \E get \in ClusterStates, lt \in BOOLEAN :
        /\ queries' = Append(queries, [at |-> clock, state |-> get])
        /\ late' = (late \/ lt)
        /\ IF Predicate(get)
           THEN pollErr' = ErrNil /\ pc' = "polled"
           ELSE IF DeadlineBeforeNext(late')
           THEN pollErr' = ErrTimeout /\ pc' = "polled"
           ELSE pollErr' = pollErr /\ pc' = "sleep"
    /\ UNCHANGED <<op, ingressVars, bridgeVars, clusterVars>>
    /\ UNCHANGED memberVars
    /\ UNCHANGED <<interval, deadline, clock, cancelled, diags, adds, saved>>

\* One round of the poll: a cancelled context ends it; otherwise the status
\* query is sent and answered, and the poll ends with success when the
\* predicate holds, with a timeout when the deadline would pass before the
\* next query, and else waits for the interval.
Poll_Query ==
    /\ pc = "poll"
    /\ IF cancelled
       THEN /\ pollErr' = ErrCancelled /\ pc' = "polled"
            /\ UNCHANGED <<queries, late>>
       ELSE \E get \in ClusterStates, lt \in BOOLEAN :
            /\ queries' = Append(queries, [at |-> clock, state |-> get])
            /\ late' = (late \/ lt)
            /\ IF Predicate(get)
               THEN pollErr' = ErrNil /\ pc' = "polled"
               ELSE IF DeadlineBeforeNext(late')
               THEN pollErr' = ErrTimeout /\ pc' = "polled"
               ELSE pollErr' = pollErr /\ pc' = "sleep"
    /\ UNCHANGED <<op, ingressVars, bridgeVars, clusterVars>>
    /\ UNCHANGED memberVars
    /\ UNCHANGED <<interval, deadline, clock, cancelled, diags, adds, saved>>

\* The wait between two queries: the interval passes, or a cancelled context
\* ends the poll.
Poll_Sleep ==
    /\ pc = "sleep"
    /\ IF cancelled
       THEN pollErr' = ErrCancelled /\ pc' = "polled" /\ clock' = clock
       ELSE pollErr' = pollErr /\ pc' = "poll" /\ clock' = clock + interval
    /\ UNCHANGED <<op, ingressVars, bridgeVars, clusterVars>>
    /\ UNCHANGED memberVars
    /\ UNCHANGED <<interval, deadline, late, cancelled, queries, diags, adds, saved>>

\* The caller cancels the enclosing operation's context while the poll is in
\* progress; pollCtx is derived from it.
Cancel ==
    /\ pc \in {"poll", "sleep"}
    /\ ~cancelled
    /\ cancelled' = TRUE
    /\ UNCHANGED <<op, pc, ingressVars, bridgeVars, memberVars, clusterVars>>
    /\ UNCHANGED <<interval, deadline, clock, late, queries, pollErr, diags, adds, saved>>

\* Variant of Create_AfterPoll that reports the poll's error and goes on.
Create_AfterPollNoReturn ==
    /\ pc = "polled" /\ op = "Create"
    /\ pc' = "done"
    /\ \E added \in BOOLEAN, object \in UserObjects :
        LET d == IF pollErr # ErrNil THEN Append(diags, DiagPoll) ELSE diags IN
        /\ adds' = Append(adds, [ok |-> added])
        /\ diags' = IF added THEN d ELSE Append(d, DiagAdd)
        /\ saved' = added
        /\ store' = IF added THEN populateState(object, req.Plan) ELSE store
        /\ member' = (member \/ added)
    /\ UNCHANGED <<op, ingressVars, bridgeVars, clusterVars>>
    /\ UNCHANGED <<req, sends, nops>>
    /\ UNCHANGED <<interval, deadline, clock, late, cancelled, queries, pollErr>>

\* Create, lines 110-153: a failed poll is reported and ends the call;
\* after a successful one the Add request is sent, and its answer is saved
\* in the store as the new state (populateState on the plan) unless the
\* request failed.  (Build of a user builder
\* returns no error.)
Create_AfterPoll ==
    /\ pc = "polled" /\ op = "Create"
    /\ pc' = "done"
    /\ IF pollErr # ErrNil
       THEN /\ diags' = Append(diags, DiagPoll)
            /\ UNCHANGED <<adds, saved, store, member>>
       ELSE \E added \in BOOLEAN, object \in UserObjects :
            /\ adds' = Append(adds, [ok |-> added])
            /\ diags' = IF added THEN diags ELSE Append(diags, DiagAdd)
            /\ saved' = added
            /\ store' = IF added THEN populateState(object, req.Plan) ELSE store
            /\ member' = (member \/ added)
    /\ UNCHANGED <<op, ingressVars, bridgeVars, clusterVars>>
    /\ UNCHANGED <<req, sends, nops>>
    /\ UNCHANGED <<interval, deadline, clock, late, cancelled, queries, pollErr>>


\* The framework calls the next operation of the group membership: Create
\* while the store holds no membership, and Read, Update or Delete on the
\* one it holds; the request carries the plan and the prior state, and the
\* response starts without diagnostics.
Invoke ==
    /\ pc = "done" /\ op \in MembershipOps
    /\ nops < MaxOps
    /\ \E o \in (IF store = Nil THEN {"Create"} ELSE {"Read", "Update", "Delete"}) :
       \E p \in MemberPlans :
        /\ op' = o
        /\ req' = [Plan |-> IF o \in {"Create", "Update"} THEN p ELSE Nil,
                   State |-> store]
    /\ pc' = "start"
    /\ nops' = nops + 1
    /\ interval' = 0 /\ deadline' = 0 /\ clock' = 0 /\ late' = FALSE
    /\ cancelled' = FALSE /\ queries' = <<>> /\ pollErr' = NotPolled
    /\ diags' = <<>> /\ adds' = <<>> /\ saved' = FALSE /\ sends' = <<>>
    /\ UNCHANGED <<store, member, ingressVars, bridgeVars, clusterVars>>

\* Variant of Call_Read that saves the state whatever the Get answered.
Call_ReadSavingAlways ==
    /\ pc = "start" /\ op = "Read"
    /\ pc' = "done"
    /\ \E found \in BOOLEAN, object \in UserObjects :
        /\ sends' = Append(sends, GetCall(req.State, found))
        /\ diags' = IF found THEN diags ELSE Append(diags, DiagGet)
        /\ store' = populateState(object, req.State)
        /\ saved' = TRUE
    /\ UNCHANGED <<op, req, member, nops, ingressVars, bridgeVars, clusterVars>>
    /\ UNCHANGED <<interval, deadline, clock, late, cancelled, queries, pollErr, adds>>

\* Read, lines 155-187: the state is read from the request; the Get is sent
\* to the stored membership; a failed Get is reported and ends the call, and
\* the answer of a successful one is saved as the state.
Call_Read ==
    /\ pc = "start" /\ op = "Read"
    /\ pc' = "done"
    /\ \E stateRead \in BOOLEAN :
        IF ~stateRead
        THEN /\ diags' = Append(diags, DiagState)
             /\ UNCHANGED <<sends, store, saved>>
        ELSE \E found \in BOOLEAN, object \in UserObjects :
             /\ sends' = Append(sends, GetCall(req.State, found))
             /\ diags' = IF found THEN diags ELSE Append(diags, DiagGet)
             /\ store' = IF found THEN populateState(object, req.State) ELSE store
             /\ saved' = found
    /\ UNCHANGED <<op, req, member, nops, ingressVars, bridgeVars, clusterVars>>
    /\ UNCHANGED <<interval, deadline, clock, late, cancelled, queries, pollErr, adds>>

\* Variant of Call_Update that sends the plan to the server and saves it.
Call_UpdateSendingPlan ==
    /\ pc = "start" /\ op = "Update"
    /\ pc' = "done"
    /\ \E updated \in BOOLEAN :
        /\ sends' = Append(sends, [kind |-> "Update", id |-> String(req.State.ID),
                                   ok |-> updated])
        /\ diags' = IF updated THEN diags ELSE Append(diags, DiagUpdate)
        /\ store' = IF updated THEN [req.Plan EXCEPT !.ID = req.State.ID] ELSE store
        /\ saved' = updated
    /\ UNCHANGED <<op, req, member, nops, ingressVars, bridgeVars, clusterVars>>
    /\ UNCHANGED <<interval, deadline, clock, late, cancelled, queries, pollErr, adds>>

\* Update, lines 189-192: the error is added to the diagnostics and nothing
\* else is done; the store keeps the prior state.
Call_Update ==
    /\ pc = "start" /\ op = "Update"
    /\ pc' = "done"
    /\ diags' = Append(diags, DiagUpdate)
    /\ UNCHANGED <<sends, store, saved>>
    /\ UNCHANGED <<op, req, member, nops, ingressVars, bridgeVars, clusterVars>>
    /\ UNCHANGED <<interval, deadline, clock, late, cancelled, queries, pollErr, adds>>

\* Delete, lines 194-222: the state is read from the request; the Delete is
\* sent to the stored membership; a failed Delete is reported and ends the
\* call, and after a successful one the resource is removed from the store.
Call_Delete ==
    /\ pc = "start" /\ op = "Delete"
    /\ pc' = "done"
    /\ \E stateRead \in BOOLEAN :
        IF ~stateRead
        THEN /\ diags' = Append(diags, DiagState)
             /\ UNCHANGED <<sends, store, member>>
        ELSE \E deleted \in BOOLEAN :
             /\ sends' = Append(sends, DeleteCall(req.State, deleted))
             /\ diags' = IF deleted THEN diags ELSE Append(diags, DiagDelete)
             /\ store' = IF deleted THEN Nil ELSE store
             /\ member' = (member /\ ~deleted)
    /\ UNCHANGED <<op, req, nops, saved, ingressVars, bridgeVars, clusterVars>>
    /\ UNCHANGED <<interval, deadline, clock, late, cancelled, queries, pollErr, adds>>

\* The apply of a source while no cluster is stored: the resource's Create
\* sends the cluster to the clusters collection, and the server's answer is
\* stored; the apply fails if the request does.
Apply_Create ==
    /\ pc = "start" /\ op = "Apply" /\ tfstate = Nil
    /\ pc' = "done"
    /\ \E created \in BOOLEAN :
        /\ http' = Append(http, Http("POST", ClustersPath, Nodes(source), created))
        /\ tfstate' = IF created THEN [id |-> ClusterId, nodes |-> Nodes(source)]
                      ELSE tfstate
        /\ exit' = IF created THEN 0 ELSE 1
    /\ UNCHANGED <<op, source, prior, applies>>
    /\ UNCHANGED <<ingressVars, bridgeVars, pollVars, memberVars>>

\* The apply of a source on a stored cluster begins with the resource's
\* Read, which gets the cluster by its stored identifier; the apply fails
\* if the request does, ends with success if the source declares what is
\* stored, and else goes on to the Update.
Apply_Read ==
    /\ pc = "start" /\ op = "Apply" /\ tfstate # Nil
    /\ \E found \in BOOLEAN :
        /\ http' = Append(http, Http("GET", ClusterPath(tfstate.id), Nil, found))
        /\ pc' = IF found /\ Nodes(source) # tfstate.nodes THEN "refreshed" ELSE "done"
        /\ exit' = IF ~found THEN 1
                   ELSE IF Nodes(source) # tfstate.nodes THEN Running ELSE 0
    /\ UNCHANGED <<op, source, tfstate, prior, applies>>
    /\ UNCHANGED <<ingressVars, bridgeVars, pollVars, memberVars>>

\* Variant of Apply_Update that patches the node counts of the stored state.
Apply_UpdateFromState ==
    /\ pc = "refreshed" /\ op = "Apply"
    /\ pc' = "done"
    /\ \E updated \in BOOLEAN :
        /\ http' = Append(http, Http("PATCH", ClusterPath(tfstate.id),
                                    tfstate.nodes, updated))
        /\ tfstate' = tfstate
        /\ exit' = IF updated THEN 0 ELSE 1
    /\ UNCHANGED <<op, source, prior, applies>>
    /\ UNCHANGED <<ingressVars, bridgeVars, pollVars, memberVars>>

\* The resource's Update patches the stored cluster with the declared node
\* counts, which differ from the stored ones, and stores them when the
\* server accepts them.
Apply_Update ==
    /\ pc = "refreshed" /\ op = "Apply"
    /\ pc' = "done"
    /\ \E updated \in BOOLEAN :
        /\ http' = Append(http, Http("PATCH", ClusterPath(tfstate.id),
                                    Nodes(source), updated))
        /\ tfstate' = IF updated THEN [tfstate EXCEPT !.nodes = Nodes(source)]
                      ELSE tfstate
        /\ exit' = IF updated THEN 0 ELSE 1
    /\ UNCHANGED <<op, source, prior, applies>>
    /\ UNCHANGED <<ingressVars, bridgeVars, pollVars, memberVars>>

\* The test sets the next source, arms the server for the requests of one
\* more apply and runs it.
Apply_Next ==
    /\ pc = "done" /\ op = "Apply"
    /\ applies < MaxApplies
    /\ applies' = applies + 1
    /\ \E src \in ClusterSources : source' = src
    /\ prior' = tfstate
    /\ http' = <<>> /\ exit' = Running
    /\ pc' = "start"
    /\ UNCHANGED <<op, tfstate, ingressVars, bridgeVars, pollVars, memberVars>>

\* the first conversion of a run is applied to arg, the second one to the
\* value the first one returned without an error
Converts(f, inverse) ==
    \/ pc = "start" /\ op = f
    \/ pc = "converted" /\ op = inverse /\ ~out.err
Converted(r) ==
    /\ IF pc = "start"
       THEN pc' = "converted" /\ out' = r /\ back' = back
       ELSE pc' = "done" /\ back' = r /\ out' = out
    /\ UNCHANGED <<op, arg, ingressVars, pollVars, memberVars, clusterVars>>
Input == IF pc = "start" THEN arg ELSE out.val

\* OptionalMap(ctx, tfVal)
Call_OptionalMap ==
    /\ Converts("OptionalMap", "ConvertStringMapToMapType")
    /\ Converted(OptionalMap(Input))

\* StringListToArray(ctx, tfVal)
Call_StringListToArray ==
    /\ Converts("StringListToArray", "StringArrayToList")
    /\ Converted(StringListToArray(Input))

\* ConvertStringMapToMapType(stringMap)
Call_ConvertStringMapToMapType ==
    /\ Converts("ConvertStringMapToMapType", "OptionalMap")
    /\ Converted(ConvertStringMapToMapType(Input))

\* StringArrayToList(stringList)
Call_StringArrayToList ==
    /\ Converts("StringArrayToList", "StringListToArray")
    /\ Converted(StringArrayToList(Input))


NextUpdate == Call_UpdateIngress \/ Call_updateIngress
NextValidate == Call_ValidateDefaultIngress \/ Call_validateDefaultIngress
NextPopulate == Call_PopulateDefaultIngress \/ Call_populateDefaultIngress
NextSet == Call_SetIngress \/ Call_setIngress
NextPoll == Create_Start \/ Poll_Query \/ Poll_Sleep \/ Cancel \/ Create_AfterPoll
NextBridge ==
    \/ Call_OptionalMap \/ Call_StringListToArray
    \/ Call_ConvertStringMapToMapType \/ Call_StringArrayToList

NextMembership == NextPoll \/ Invoke \/ Call_Read \/ Call_Update \/ Call_Delete
NextCluster == Apply_Create \/ Apply_Read \/ Apply_Update \/ Apply_Next

Next ==
    \/ NextUpdate \/ NextValidate \/ NextPopulate \/ NextSet \/ NextBridge
    \/ NextMembership \/ NextCluster

\* every function, each on its own arguments
Spec == Init /\ [][Next]_vars
\* the runs of UpdateIngress and updateIngress
SpecUpdate == InitUpdate /\ [][NextUpdate]_vars
\* the runs of ValidateDefaultIngress and validateDefaultIngress
SpecValidate == InitValidate /\ [][NextValidate]_vars
\* the runs of PopulateDefaultIngress and populateDefaultIngress
SpecPopulate == InitPopulate /\ [][NextPopulate]_vars
\* the runs of SetIngress and setIngress
SpecSet == InitSet /\ [][NextSet]_vars
\* the runs of the poll and of GroupMembershipResource.Create
SpecPoll == InitPoll /\ [][NextPoll]_vars
\* the runs of the conversions of tfconversions.go
SpecBridge == InitBridge /\ [][NextBridge]_vars
\* the lifecycle of a group membership: Create, then Read, Update and Delete
SpecMembership == InitMembership /\ [][NextMembership]_vars
\* the applies of a cluster
SpecCluster == InitCluster /\ [][NextCluster]_vars

(***************************************************************************)
(* Vocabulary of the properties.                                           *)
(***************************************************************************)
Done == pc = "done"
UpdateOps == {"UpdateIngress", "updateIngress"}
ValidateOps == {"ValidateDefaultIngress", "validateDefaultIngress"}

\* the Update requests sent, and the List requests sent
UpdatesSent == {i \in DOMAIN calls : calls[i].kind = "Update"}
ListsSent == {i \in DOMAIN calls : calls[i].kind = "List"}

\* a hostname, reference or identifier is set: known and not empty
IsSet(t) == t.st = "known" /\ t.v # ""

\* the parent version parses and is at or above the minimum 4.14.0-0
VersionSupported(ver) ==
    ver.ok /\ VersionGreaterOrEqual(ver, PreNum(4, 14, 0, 0))

\* the native form of a declared map or list, an explicit empty collection
\* when the declared value is null or unknown
DeclaredMapOrEmpty(m) ==
    IF m.st = "known" THEN GoMap({<<p[1], p[2].v>> : p \in m.elems}) ELSE GoMap({})
DeclaredListOrEmpty(l) ==
    IF l.st = "known" THEN GoSlice([i \in DOMAIN l.elems |-> l.elems[i].v])
    ELSE GoSlice(<<>>)

\* the declared intent passes the validation gate: it is absent, or the
\* version is supported, hostname and TLS secret reference are set on a known
\* identifier only, and both or neither of them is set
IntentValid(pl, ver) ==
    \/ pl = Nil
    \/ /\ VersionSupported(ver)
       /\ ~(~IsSet(pl.Id) /\ (IsSet(pl.ClusterRoutesHostname)
                              \/ IsSet(pl.ClusterRoutesTlsSecretRef)))
       /\ IsSet(pl.ClusterRoutesHostname) <=> IsSet(pl.ClusterRoutesTlsSecretRef)


\* the declared route selectors or excluded namespaces hold an element that
\* is null or unknown, which the conversion to Go strings refuses
Unconvertible(pl) ==
    \/ pl.RouteSelectors.st = "known"
        /\ \E p \in pl.RouteSelectors.elems : p[2].st # "known"
    \/ pl.ExcludedNamespaces.st = "known"
        /\ \E i \in DOMAIN pl.ExcludedNamespaces.elems :
            pl.ExcludedNamespaces.elems[i].st # "known"

SetOps == {"SetIngress", "setIngress"}


(***************************************************************************)
(* C1. Idempotence: when the stored state and the declared intent are      *)
(* structurally equal (both absent included), UpdateIngress and            *)
(* updateIngress send no request at all, neither List nor Update, and      *)
(* return no error, whatever the parent version is.                        *)
(***************************************************************************)
C1_Idempotent ==
    (Done /\ op \in UpdateOps /\ state0 = plan)
        => (calls = <<>> /\ result = Returned(ErrNil))

\* a stored state equal to a declared one under an unparseable version
C1_Witness ==
    /\ Done /\ op = "UpdateIngress"
    /\ plan # Nil /\ state0 = plan
    /\ version = Unparseable
    /\ result = Returned(ErrNil)

C3_UpdateTargetsKnownId ==
    (Done /\ op \in UpdateOps) => \A i \in UpdatesSent : calls[i].id # ""

(***************************************************************************)
(* C4. When ValidateDefaultIngress rejects the declared intent,            *)
(* UpdateIngress returns that error and has sent no request, neither the   *)
(* List of the lookup nor the Update.  (Validation runs when the stored    *)
(* state and the declared intent differ; when they are equal nothing is    *)
(* sent either.)                                                           *)
(***************************************************************************)
C4_RejectedSendsNothing ==
    (Done /\ op \in UpdateOps /\ plan # Nil
          /\ (~VersionSupported(version)
              \/ (~IsSet(plan.Id) /\ (IsSet(plan.ClusterRoutesHostname)
                                     \/ IsSet(plan.ClusterRoutesTlsSecretRef)))
              \/ IsSet(plan.ClusterRoutesHostname)
                    # IsSet(plan.ClusterRoutesTlsSecretRef)))
        => /\ calls = <<>>
           /\ state0 # plan
                => /\ result.kind = "return"
                   /\ result.err \in {ErrVersionParse, ErrVersionUnsupported,
                                      ErrCreation, ErrTogether}
                   /\ op = "UpdateIngress"
                        => result.err = ValidateDefaultIngress(plan, version)
                   /\ op = "updateIngress"
                        => result.err = validateDefaultIngress(plan, version)

\* a rejected intent whose stored state has no identifier, so that the
\* lookup would have been the next step
C4_Witness ==
    /\ Done /\ op = "UpdateIngress"
    /\ state0 = Nil /\ plan # Nil
    /\ result = Returned(ErrTogether)
    /\ calls = <<>>

(***************************************************************************)
(* C5. ValidateDefaultIngress accepts a declared intent exactly when the   *)
(* intent is absent, or the parent version is at or above 4.14.0-0, the    *)
(* identifier is not unknown while hostname or TLS secret reference is     *)
(* set, and the hostname is set if and only if the reference is.           *)
(***************************************************************************)
C5_ValidateAccepts ==
    (Done /\ op \in ValidateOps)
        => ((result.err = ErrNil)
            <=> (\/ plan = Nil
                 \/ /\ VersionSupported(version)
                    /\ ~(~IsSet(plan.Id)
                         /\ (IsSet(plan.ClusterRoutesHostname)
                             \/ IsSet(plan.ClusterRoutesTlsSecretRef)))
                    /\ IsSet(plan.ClusterRoutesHostname)
                        <=> IsSet(plan.ClusterRoutesTlsSecretRef)))

\* an accepted intent that sets hostname and reference, on a known identifier
C5_Witness ==
    /\ Done /\ op = "ValidateDefaultIngress"
    /\ plan # Nil
    /\ result = Returned(ErrNil)
    /\ IsSet(plan.ClusterRoutesHostname) /\ IsSet(plan.ClusterRoutesTlsSecretRef)
    /\ IsSet(plan.Id)
    /\ version = PreNum(4, 14, 0, 0)

(***************************************************************************)
(* C6. Gate ordering: for a declared intent whose parent version is below  *)
(* the minimum or unparseable and which also breaks the both-or-neither    *)
(* rule, ValidateDefaultIngress reports the version failure, never the     *)
(* configuration failure.                                                  *)
(***************************************************************************)
C6_VersionFirst ==
    (Done /\ op \in ValidateOps /\ plan # Nil
          /\ ~VersionSupported(version)
          /\ IsSet(plan.ClusterRoutesHostname) # IsSet(plan.ClusterRoutesTlsSecretRef))
        => result.err = (IF version.ok THEN ErrVersionUnsupported
                         ELSE ErrVersionParse)

\* a version below the minimum with only the hostname set, on a known
\* identifier: the both-or-neither rule is the only other rule broken
C6_Witness ==
    /\ Done /\ op = "ValidateDefaultIngress"
    /\ plan # Nil
    /\ version = Release(4, 13, 9)
    /\ IsSet(plan.Id)
    /\ IsSet(plan.ClusterRoutesHostname) /\ ~IsSet(plan.ClusterRoutesTlsSecretRef)
    /\ result = Returned(ErrVersionUnsupported)

(***************************************************************************)
(* C7. Creation guard: a declared intent whose identifier is absent or     *)
(* empty and which sets hostname or TLS secret reference, under a          *)
(* supported version, fails validation with the "can't be set on cluster   *)
(* creation" error, also when only one of the two is set, and no request   *)
(* is sent.                                                                *)
(***************************************************************************)
C7_CreationGuard ==
    (Done /\ plan # Nil
          /\ VersionSupported(version)
          /\ ~IsSet(plan.Id)
          /\ (IsSet(plan.ClusterRoutesHostname)
              \/ IsSet(plan.ClusterRoutesTlsSecretRef)))
        => /\ op \in ValidateOps => result = Returned(ErrCreation)
           /\ op \in UpdateOps
                => /\ calls = <<>>
                   /\ state0 # plan => result = Returned(ErrCreation)

\* only the hostname is set and the identifier is absent: rule 3 wins
C7_Witness ==
    /\ Done /\ op = "ValidateDefaultIngress"
    /\ plan # Nil
    /\ VersionSupported(version)
    /\ plan.Id = StringNull
    /\ IsSet(plan.ClusterRoutesHostname) /\ ~IsSet(plan.ClusterRoutesTlsSecretRef)
    /\ result = Returned(ErrCreation)

(***************************************************************************)
(* C8. The Update body carries the hostname if and only if the stored      *)
(* hostname differs from the declared one, and the TLS secret reference if *)
(* and only if the stored reference differs from the declared one, the     *)
(* stored values being those of the state in use after any lookup.         *)
(***************************************************************************)
C8_ClusterRoutesOnlyIfChanged ==
    (Done /\ op \in UpdateOps)
        => \A i \in UpdatesSent :
            LET body == calls[i].body IN
            /\ body.ClusterRoutesHostname.has
                <=> stateUsed.ClusterRoutesHostname # plan.ClusterRoutesHostname
            /\ body.ClusterRoutesTlsSecretRef.has
                <=> stateUsed.ClusterRoutesTlsSecretRef # plan.ClusterRoutesTlsSecretRef
            /\ body.ClusterRoutesHostname.has
                => body.ClusterRoutesHostname.val = plan.ClusterRoutesHostname.v
            /\ body.ClusterRoutesTlsSecretRef.has
                => body.ClusterRoutesTlsSecretRef.val = plan.ClusterRoutesTlsSecretRef.v

\* a lookup finds the declared hostname already on the remote default
\* ingress: the Update after it carries no hostname
C8_Witness ==
    /\ Done /\ op = "UpdateIngress"
    /\ Len(calls) = 2 /\ calls[1].kind = "List" /\ calls[2].kind = "Update"
    /\ plan.ClusterRoutesHostname = StringValue("h")
    /\ stateUsed.ClusterRoutesHostname = StringValue("h")
    /\ state0 = Nil
    /\ ~calls[2].body.ClusterRoutesHostname.has
    /\ ~calls[2].body.ClusterRoutesTlsSecretRef.has

(***************************************************************************)
(* C9. Read path: after PopulateDefaultIngress finds the ingress marked    *)
(* default, every stored field whose counterpart is absent from the remote *)
(* object is null in the returned state, for all the fields, route         *)
(* selectors and excluded namespaces included, whatever value the state    *)
(* held in that field before the call.                                     *)
(***************************************************************************)
C9_AbsentBecomesNull ==
    (Done /\ op = "PopulateDefaultIngress" /\ result = Returned(ErrNil)
          /\ ListsSent # {} /\ FirstDefault(calls[1].items) # 0)
        => LET ingress == calls[1].items[FirstDefault(calls[1].items)] IN
           /\ ~ingress.RouteSelectors.has => ret.RouteSelectors.st = "null"
           /\ ~ingress.ExcludedNamespaces.has => ret.ExcludedNamespaces.st = "null"
           /\ ~ingress.RouteWildcardPolicy.has => ret.WildcardPolicy = StringNull
           /\ ~ingress.RouteNamespaceOwnershipPolicy.has
                => ret.NamespaceOwnershipPolicy = StringNull
           /\ ~ingress.ClusterRoutesHostname.has
                => ret.ClusterRoutesHostname = StringNull
           /\ ~ingress.ClusterRoutesTlsSecretRef.has
                => ret.ClusterRoutesTlsSecretRef = StringNull

(***************************************************************************)
(* C10. A failed population never leaves the stored state partially        *)
(* overwritten: if the List fails while UpdateIngress or updateIngress     *)
(* looks up the default ingress, the caller's stored state after the call  *)
(* is field for field what it was before the call.                         *)
(***************************************************************************)
C10_FailedLookupKeepsState ==
    (Done /\ op \in UpdateOps /\ ListsSent # {} /\ ~calls[1].ok)
        => state = state0

(***************************************************************************)
(* C11. Day-2 ordering: when the stored state is absent or has no          *)
(* identifier, and the declared intent differs from it and passes          *)
(* validation, UpdateIngress sends exactly one List, before the Update,    *)
(* and the Update targets the identifier of the ingress marked default in  *)
(* that listing; when the stored identifier is known it sends no List and  *)
(* the Update targets the stored identifier.                               *)
(***************************************************************************)
C11_LookupBeforeUpdate ==
    (Done /\ op = "UpdateIngress" /\ state0 # plan /\ IntentValid(plan, version))
        => IF state0 = Nil \/ ~IsSet(state0.Id)
           THEN /\ Cardinality(ListsSent) = 1
                /\ calls[1].kind = "List"
                /\ \A i \in UpdatesSent :
                    /\ i > 1
                    /\ \E d \in DOMAIN calls[1].items :
                        /\ calls[1].items[d].Default
                        /\ calls[i].id = calls[1].items[d].ID
           ELSE /\ ListsSent = {}
                /\ \A i \in UpdatesSent : calls[i].id = state0.Id.v

(***************************************************************************)
(* C12. Conversion failures are reported and never crash: when the         *)
(* declared route selectors or excluded namespaces fail to convert while   *)
(* the request is built, SetIngress and UpdateIngress return normally with *)
(* an error for the caller (no nil request builder is dereferenced) and    *)
(* send no Update.  UpdateIngress builds the request when the intent       *)
(* differs from the stored state, passes validation, and the lookup, if    *)
(* there was one, succeeded.                                               *)
(***************************************************************************)
C12_ConversionFailureReported ==
    (/\ Done /\ plan # Nil /\ Unconvertible(plan)
     /\ \/ op = "SetIngress"
        \/ /\ op = "UpdateIngress"
           /\ state0 # plan /\ IntentValid(plan, version)
           /\ \A i \in ListsSent : calls[i].ok)
        => /\ result.kind = "return"
           /\ result.err # ErrNil
           /\ UpdatesSent = {}

(***************************************************************************)
(* C13. Creation request: for every declared intent that is not absent,    *)
(* SetIngress (and setIngress) attaches exactly one ingress, marked        *)
(* default, whose route selectors and excluded namespaces are always       *)
(* present (an explicit empty map or list when the intent leaves them      *)
(* unset), whose wildcard and namespace-ownership policies are present     *)
(* only when the intent sets them, and which carries neither hostname nor  *)
(* TLS secret reference.                                                   *)
(***************************************************************************)
C13_CreationRequest ==
    (Done /\ op \in SetOps /\ plan # Nil)
        => /\ result = Returned(ErrNil)
           /\ ret # Nil
           /\ ret.Ingresses.has
           /\ Len(ret.Ingresses.val) = 1
           /\ LET ingress == ret.Ingresses.val[1] IN
              /\ ingress.Default = Present(TRUE)
              /\ ingress.RouteSelectors
                    = Present(DeclaredMapOrEmpty(plan.RouteSelectors))
              /\ ingress.ExcludedNamespaces
                    = Present(DeclaredListOrEmpty(plan.ExcludedNamespaces))
              /\ ingress.RouteWildcardPolicy =
                    (IF IsSet(plan.WildcardPolicy)
                     THEN Present(plan.WildcardPolicy.v) ELSE Absent(""))
              /\ ingress.RouteNamespaceOwnershipPolicy =
                    (IF IsSet(plan.NamespaceOwnershipPolicy)
                     THEN Present(plan.NamespaceOwnershipPolicy.v) ELSE Absent(""))
              /\ ~ingress.ClusterRoutesHostname.has
              /\ ~ingress.ClusterRoutesTlsSecretRef.has

(***************************************************************************)
(* C14. Readiness before mutation: GroupMembershipResource.Create sends    *)
(* the Add request only after the poll of the cluster has returned success *)
(* with the cluster seen in state ready; when the poll ends with a timeout *)
(* or any other error, no Add is sent, an error is reported and no state   *)
(* is saved.                                                               *)
(***************************************************************************)
C14_ReadyBeforeAdd ==
    op = "Create"
        => /\ adds # <<>>
                => /\ pollErr = ErrNil
                   /\ queries # <<>>
                   /\ queries[Len(queries)].state = "ready"
           /\ Len(adds) <= 1
           /\ pollErr \notin {NotPolled, ErrNil}
                => /\ adds = <<>>
                   /\ ~saved
                   /\ Done => DiagPoll \in {diags[i] : i \in DOMAIN diags}

\* the poll of Create ran into its deadline of one hour, and Create ended
\* with the error reported and nothing sent or saved
C14_Witness ==
    /\ Done /\ op = "Create"
    /\ pollErr = ErrTimeout
    /\ queries[Len(queries)].at >= PollTimeout - PollInterval
    /\ adds = <<>> /\ ~saved
    /\ diags = <<DiagPoll>>

(***************************************************************************)
(* C15. Readiness timeout: a poll whose predicate never becomes true, at   *)
(* interval 1 under a deadline of 3, sends its first status query at once, *)
(* sends 3 or 4 status queries in all, none after the deadline, and then   *)
(* ends with the timeout error, never with success.                        *)
(***************************************************************************)
C15_TimeoutAfterThreeOrFour ==
    (/\ interval = 1 /\ deadline = 3 /\ ~cancelled
     /\ \A i \in DOMAIN queries : ~Predicate(queries[i].state))
        => /\ queries # <<>> => queries[1].at = 0
           /\ \A i \in DOMAIN queries : queries[i].at <= deadline
           /\ Len(queries) <= 4
           /\ pollErr \in {NotPolled, ErrTimeout}
           /\ pollErr = ErrTimeout => Len(queries) \in {3, 4}
           /\ pc = "sleep" => Len(queries) < 4

\* the poll timed out after three queries, the third one late enough for a
\* fourth to fall after the deadline
C15_Witness ==
    /\ op = "Poll" /\ interval = 1 /\ deadline = 3
    /\ pollErr = ErrTimeout
    /\ Len(queries) = 3
    /\ \A i \in DOMAIN queries : ~Predicate(queries[i].state)
    /\ queries[3].at = 2

(***************************************************************************)
(* C16. Cancellation: once the enclosing operation is cancelled while the  *)
(* poll is in progress, no further status query is sent, the poll ends     *)
(* with the cancellation error and with no other outcome, and Create sends *)
(* no Add afterwards.                                                      *)
(***************************************************************************)
C16_CancelStopsPoll ==
    [][cancelled
        => /\ queries' = queries
           /\ adds' = adds
           /\ pollErr' # pollErr => pollErr' = ErrCancelled
           /\ pc \in {"poll", "polled"} => pc' \in {"polled", "done"}]_vars

\* Create was cancelled between two queries of its poll and ended with the
\* poll's error reported and no Add sent
C16_Witness ==
    /\ Done /\ op = "Create"
    /\ cancelled
    /\ pollErr = ErrCancelled
    /\ Len(queries) = 2
    /\ adds = <<>> /\ ~saved
    /\ diags = <<DiagPoll>>

(***************************************************************************)
(* C17. No automatic retry: one call of UpdateIngress (or updateIngress)   *)
(* sends at most one List request and at most one Update request; a        *)
(* request that fails is the last one sent, and the call returns an error. *)
(***************************************************************************)
C17_NoRetry ==
    (Done /\ op \in UpdateOps)
        => /\ Cardinality(ListsSent) <= 1
           /\ Cardinality(UpdatesSent) <= 1
           /\ \A i \in DOMAIN calls :
                ~calls[i].ok
                    => /\ i = Len(calls)
                       /\ result.kind = "return"
                       /\ result.err # ErrNil

\* the lookup succeeded and the Update after it failed: nothing was sent
\* again and the Update's error was returned
C17_Witness ==
    /\ Done /\ op = "UpdateIngress"
    /\ Len(calls) = 2
    /\ calls[1].kind = "List" /\ calls[1].ok
    /\ calls[2].kind = "Update" /\ ~calls[2].ok
    /\ result = Returned(ErrUpdate)

\* an error that wraps the underlying one with the operation and the cluster
Wrapped(operation, clusterId, underlying) ==
    operation \o " of cluster '" \o clusterId \o "': " \o underlying

\* the identifiers a cluster may have
ClusterIds == {"c1", "c2"}

(***************************************************************************)
(* C18. Every error that PopulateDefaultIngress or UpdateIngress returns   *)
(* because a remote call failed carries the name of the operation and the  *)
(* identifier of the owning cluster together with the underlying error.    *)
(***************************************************************************)
C18_RemoteErrorsWrapped ==
    (Done /\ op \in {"PopulateDefaultIngress", "UpdateIngress"})
        => \A i \in DOMAIN calls :
            ~calls[i].ok
                => \E clusterId \in ClusterIds :
                    result.err = Wrapped(calls[i].kind, clusterId,
                                         IF calls[i].kind = "List" THEN ErrList
                                         ELSE ErrUpdate)

\* a tool map, or list, that is known and whose elements are all known strings
AllKnownMap(tfVal) ==
    tfVal.st = "known" /\ \A p \in tfVal.elems : p[2].st = "known"
AllKnownList(tfVal) ==
    tfVal.st = "known" /\ \A i \in DOMAIN tfVal.elems : tfVal.elems[i].st = "known"

(***************************************************************************)
(* C19. Null versus empty: OptionalMap and StringListToArray return the    *)
(* nil native form, with no error, for a null or unknown tool value, never *)
(* an empty collection; for an explicitly empty tool map or list they      *)
(* return an empty collection that is not nil.                             *)
(***************************************************************************)
C19_NullIsNotEmpty ==
    /\ (pc # "start" /\ op = "OptionalMap")
        => /\ arg.st \in {"null", "unknown"}
                => ~out.err /\ out.val.nil /\ out.val = NilMap
           /\ (arg.st = "known" /\ arg.elems = {})
                => ~out.err /\ ~out.val.nil /\ out.val = GoMap({})
    /\ (pc # "start" /\ op = "StringListToArray")
        => /\ arg.st \in {"null", "unknown"}
                => ~out.err /\ out.val.nil /\ out.val = NilSlice
           /\ (arg.st = "known" /\ arg.elems = <<>>)
                => ~out.err /\ ~out.val.nil /\ out.val = GoSlice(<<>>)

\* an unknown map was converted to the nil map
C19_Witness ==
    /\ pc = "converted" /\ op = "OptionalMap"
    /\ arg = MapUnknown
    /\ out = [val |-> NilMap, err |-> FALSE]

(***************************************************************************)
(* C20 as stated. Round trip: for every native string map that is not nil, *)
(* OptionalMap(ConvertStringMapToMapType(m)) equals m, and for every       *)
(* native string list that is not nil StringListToArray(                   *)
(* StringArrayToList(l)) equals l, in the same order; likewise converting  *)
(* a tool map or list that is not null to native form and back yields an   *)
(* equal tool value.                                                       *)
(***************************************************************************)
C20_RoundTrip ==
    /\ (op \in {"ConvertStringMapToMapType", "StringArrayToList"} /\ ~arg.nil)
        => /\ pc # "start" => ~out.err
           /\ pc = "done" => ~back.err /\ back.val = arg
    /\ (op \in {"OptionalMap", "StringListToArray"} /\ arg.st # "null")
        => /\ pc # "start" => ~out.err
           /\ pc = "done" => ~back.err /\ back.val = arg

(***************************************************************************)
(* C20 amended. Round trip: for every native string map that is not nil,   *)
(* OptionalMap(ConvertStringMapToMapType(m)) equals m, and for every       *)
(* native string list that is not nil StringListToArray(                   *)
(* StringArrayToList(l)) equals l, in the same order; likewise converting  *)
(* a known tool map or list whose elements are all known strings to native *)
(* form and back yields an equal tool value.  (An unknown tool value       *)
(* converts to nil, which comes back as a known empty value, and a map or  *)
(* list with a null or unknown element does not convert.)                  *)
(***************************************************************************)
C20_RoundTripOfKnown ==
    /\ (op \in {"ConvertStringMapToMapType", "StringArrayToList"} /\ ~arg.nil)
        => /\ pc # "start" => ~out.err
           /\ pc = "done" => ~back.err /\ back.val = arg
    /\ (op = "OptionalMap" /\ AllKnownMap(arg))
        => /\ pc # "start" => ~out.err
           /\ pc = "done" => ~back.err /\ back.val = arg
    /\ (op = "StringListToArray" /\ AllKnownList(arg))
        => /\ pc # "start" => ~out.err
           /\ pc = "done" => ~back.err /\ back.val = arg

\* a native list of two different strings came back in the same order
C20_Witness ==
    /\ pc = "done" /\ op = "StringArrayToList"
    /\ arg = GoSlice(<<"b", "a">>)
    /\ out.val = ListValue(<<StringValue("b"), StringValue("a")>>)
    /\ back.val = arg

\* the listed ingress PopulateDefaultIngress populated the state from
Populated ==
    /\ Done /\ op = "PopulateDefaultIngress" /\ result = Returned(ErrNil)
    /\ ListsSent # {} /\ FirstDefault(calls[1].items) # 0
PopulatedFrom == calls[1].items[FirstDefault(calls[1].items)]

(***************************************************************************)
(* C21. Read population: when the listing holds an ingress marked default  *)
(* whose route selectors are an explicit empty map, PopulateDefaultIngress *)
(* stores a known, empty map of route selectors, not a null one; an        *)
(* explicit empty list of excluded namespaces is likewise stored as a      *)
(* known, empty list.                                                      *)
(***************************************************************************)
C21_EmptyStaysEmpty ==
    Populated =>
        /\ PopulatedFrom.RouteSelectors = Present(GoMap({}))
             => /\ ret.RouteSelectors = MapValue({})
                /\ ret.RouteSelectors # MapNull
                /\ state.RouteSelectors = MapValue({})
        /\ PopulatedFrom.ExcludedNamespaces = Present(GoSlice(<<>>))
             => /\ ret.ExcludedNamespaces = ListValue(<<>>)
                /\ ret.ExcludedNamespaces # ListNull
                /\ state.ExcludedNamespaces = ListValue(<<>>)

\* a stored state with route selectors and namespaces was populated from a
\* default ingress whose collections are explicit and empty
C21_Witness ==
    /\ Populated
    /\ Len(calls[1].items) = 1
    /\ PopulatedFrom.RouteSelectors = Present(GoMap({}))
    /\ PopulatedFrom.ExcludedNamespaces = Present(GoSlice(<<>>))
    /\ state0 # Nil
    /\ state0.RouteSelectors.st = "known" /\ state0.RouteSelectors.elems # {}
    /\ state0.ExcludedNamespaces.st = "known"
    /\ ret.RouteSelectors = MapValue({})
    /\ ret.ExcludedNamespaces = ListValue(<<>>)


\* the declared intent pl is the stored state st but for one collection,
\* null in the state and known without elements in the intent
EmptyForNull(st, pl) ==
    /\ st # Nil /\ pl # Nil
    /\ \/ /\ st.RouteSelectors = MapNull
          /\ pl = [st EXCEPT !.RouteSelectors = MapValue({})]
       \/ /\ st.ExcludedNamespaces = ListNull
          /\ pl = [st EXCEPT !.ExcludedNamespaces = ListValue(<<>>)]

(***************************************************************************)
(* C22 as stated. The comparison of stored state and declared intent tells *)
(* null from explicit empty: for a stored state whose route selectors (or  *)
(* excluded namespaces) are null and a valid declared intent equal to it   *)
(* but for that field, which is an explicit empty collection,              *)
(* UpdateIngress does not take the no-op path and sends an Update.         *)
(***************************************************************************)
C22_EmptyForNullUpdates ==
    (Done /\ op = "UpdateIngress" /\ EmptyForNull(state0, plan)
          /\ IntentValid(plan, version))
        => /\ ~(calls = <<>> /\ result = Returned(ErrNil))
           /\ UpdatesSent # {}

(***************************************************************************)
(* C22, amended. For such a state and intent UpdateIngress does not take   *)
(* the no-op path: when the stored identifier is known it sends exactly    *)
(* one request, the Update; when the stored identifier is missing it sends *)
(* the List first, and then the Update if the List succeeded, and else     *)
(* returns the List's error without an Update.                             *)
(***************************************************************************)
C22_EmptyForNullLeavesNoOpPath ==
    (Done /\ op = "UpdateIngress" /\ EmptyForNull(state0, plan)
          /\ IntentValid(plan, version))
        => /\ ~(calls = <<>> /\ result = Returned(ErrNil))
           /\ result.kind = "return"
           /\ ~LookupNeeded(state0)
                => Len(calls) = 1 /\ calls[1].kind = "Update"
           /\ LookupNeeded(state0)
                => /\ calls[1].kind = "List"
                   /\ calls[1].ok
                        => Len(calls) = 2 /\ calls[2].kind = "Update"
                   /\ ~calls[1].ok
                        => Len(calls) = 1 /\ result = Returned(ErrList)

\* an Update sent for a state with null excluded namespaces and an intent
\* that differs from it in the explicit empty list only
C22_Witness ==
    /\ Done /\ op = "UpdateIngress" /\ IntentValid(plan, version)
    /\ EmptyForNull(state0, plan)
    /\ state0.ExcludedNamespaces = ListNull
    /\ plan.ExcludedNamespaces = ListValue(<<>>)
    /\ plan.RouteSelectors = state0.RouteSelectors
    /\ ~LookupNeeded(state0)
    /\ UpdatesSent # {} /\ result = Returned(ErrNil)


(***************************************************************************)
(* C24. UpdateIngress ends with success or with a returned error for every *)
(* combination of absent or present stored state and absent or present     *)
(* declared intent; when the stored state is present and the declared      *)
(* intent is absent it builds no request from the absent intent: it does   *)
(* not crash and sends no Update.                                          *)
(***************************************************************************)
C24_AlwaysReturns ==
    (Done /\ op = "UpdateIngress")
        => /\ result.kind = "return"
           /\ (state0 # Nil /\ plan = Nil) => UpdatesSent = {}


\* the server answered every request of the apply with 200, as the
\* handlers of the tests do
ServerAnswered == \A i \in DOMAIN http : http[i].ok

AddSucceeded == adds # <<>> /\ adds[Len(adds)].ok
SendSucceeded(kind) ==
    sends # <<>> /\ sends[Len(sends)].kind = kind /\ sends[Len(sends)].ok

(***************************************************************************)
(* C25. In the lifecycle of a group membership, an operation (Create,      *)
(* Read, Update, Delete) that reports an error leaves the state store as   *)
(* it was before the operation; the state is written only after a          *)
(* successful Add or Get, and removed only after a successful Delete; so   *)
(* over any sequence of operations the store holds a membership only if an *)
(* Add succeeded and no Delete has succeeded since.                        *)
(***************************************************************************)
C25_StoreFollowsRemote ==
    op \in MembershipOps
        => /\ (Done /\ diags # <<>>) => store = req.State
           /\ ~Done => store = req.State
           /\ (saved \/ (store # req.State /\ store # Nil))
                => \/ op = "Create" /\ AddSucceeded
                   \/ op = "Read" /\ SendSucceeded("Get")
           /\ (store = Nil /\ req.State # Nil)
                => op = "Delete" /\ SendSucceeded("Delete")
           /\ store # Nil => member

\* a Delete that failed after a Create and a Read that succeeded: the
\* membership the Read stored is still in the store
C25_Witness ==
    /\ Done /\ op = "Delete" /\ nops = 3
    /\ diags = <<DiagDelete>>
    /\ sends = <<DeleteCall(req.State, FALSE)>>
    /\ store # Nil /\ store = req.State /\ member
    /\ store.ID = StringValue("u2") /\ store.Cluster = StringValue("c1")

(***************************************************************************)
(* C26. The Update of a group membership always reports the error "Update  *)
(* is currently not supported", for every prior state and every plan, and  *)
(* it sends no request to the server and does not write the state store.   *)
(***************************************************************************)
C26_UpdateNotSupported ==
    (Done /\ op = "Update")
        => /\ diags = <<DiagUpdate>>
           /\ sends = <<>> /\ adds = <<>> /\ queries = <<>>
           /\ ~saved /\ store = req.State

\* an Update whose plan names another user than the stored membership
C26_Witness ==
    /\ Done /\ op = "Update"
    /\ req.State # Nil /\ req.Plan # Nil
    /\ req.Plan.User = StringValue("u1") /\ req.State.User = StringValue("u2")
    /\ diags = <<DiagUpdate>>
    /\ store = req.State


PopulateOps == {"PopulateDefaultIngress", "populateDefaultIngress"}

(***************************************************************************)
(* C27. When the default ingress is not part of the stored state (the      *)
(* state is absent), PopulateDefaultIngress and populateDefaultIngress     *)
(* send no request and return no error, and the state stays (and is        *)
(* returned) absent; when the state is present they send exactly one List, *)
(* populate the state from the first listed ingress that is marked         *)
(* default, whatever ingresses not marked default the listing holds, and   *)
(* leave (and return) the state as it was when no listed ingress is marked *)
(* default.                                                                *)
(***************************************************************************)
C27_PopulateFrame ==
    (Done /\ op \in PopulateOps)
        => LET returned == IF op = "PopulateDefaultIngress" THEN ret ELSE state IN
           /\ state0 = Nil
                => /\ calls = <<>> /\ result = Returned(ErrNil)
                   /\ returned = Nil /\ state = Nil
           /\ state0 # Nil
                => /\ Len(calls) = 1 /\ calls[1].kind = "List"
                   /\ calls[1].ok
                        => LET items == calls[1].items
                               defaults == {i \in DOMAIN items : items[i].Default}
                           IN /\ result = Returned(ErrNil)
                              /\ defaults = {} => returned = state0 /\ state = state0
                              /\ defaults # {}
                                   => \E d \in defaults :
                                        /\ \A j \in defaults : d <= j
                                        /\ returned.Id = StringValue(items[d].ID)
                                        /\ returned.WildcardPolicy.v
                                             = items[d].RouteWildcardPolicy.val
                                        /\ returned.ClusterRoutesHostname.v
                                             = items[d].ClusterRoutesHostname.val

\* a state populated from the second of two listed ingresses, the first of
\* which is not marked default
C27_Witness ==
    /\ Done /\ op = "PopulateDefaultIngress" /\ result = Returned(ErrNil)
    /\ state0 # Nil
    /\ Len(calls) = 1 /\ calls[1].ok /\ Len(calls[1].items) = 2
    /\ ~calls[1].items[1].Default /\ calls[1].items[2].Default
    /\ calls[1].items[1].RouteWildcardPolicy.has
    /\ ~calls[1].items[2].RouteWildcardPolicy.has
    /\ ret.Id = StringValue("2")
    /\ ret.WildcardPolicy = StringNull


====
